---- MODULE Spec2Model ----
(***************************************************************************)
(* Model of the typemux-cc LSP proxy: one event loop that multiplexes a    *)
(* single LSP client onto a pool of language-server backends keyed by      *)
(* venv.  Each action is one step of LspProxy::run (one client message,    *)
(* one inbox message, one timer tick) or one step of a backend process /   *)
(* reader task.                                                            *)
(***************************************************************************)
EXTENDS Integers, Sequences, FiniteSets, TLC

(***************************************************************************)
(* Bounds of the model.                                                    *)
(***************************************************************************)
MaxPool == 2
MaxSession == 2
MaxRequests == 2
MaxInbox == 1
MaxTime == 1
MaxProxyIds == 2
MaxBackendIds == 1
MaxTtl == 1
MaxWarmup == 1
MaxVersion == 2
MaxTextLen == 1
MaxChars == 3
MaxTextBytes == 6
MaxLine == 2
MaxCharacter == 3
MaxChannel == 2
MaxEmit == 2
MaxReads == 2

(***************************************************************************)
(* Program constants.                                                      *)
(***************************************************************************)
REQUEST_CANCELLED == -32800
INTERNAL_ERROR == -32603

None == "none"

\* Option<T> for values that are not strings: <<>> or <<x>>.
Absent == <<>>
Some(x) == <<x>>
Venvs == {"/a", "/b"}
FallbackVenv == "/a"

\* Documents the client may name.  "untitled" is not a filesystem path.
FileUris == {"/a/x.py", "/b/y.py", "/z.py"}
Uris == FileUris \cup {"untitled"}

\* url.to_file_path(): only file URIs convert.
ToFilePathOk(uri) == uri \in FileUris

\* The venv directory on the way from the file up to the root, if any.
VenvAbove(uri) ==
    CASE uri = "/a/x.py" -> "/a"
      [] uri = "/b/y.py" -> "/b"
      [] OTHER -> None

\* "hover" stands for hover and documentSymbol as well.
VENV_CHECK_METHODS == {"hover", "definition"}

\* hover held back during warmup too.
INDEX_DEPENDENT_METHODS_WITH_HOVER == {"definition", "hover"}

INDEX_DEPENDENT_METHODS == {"definition"}
\* "completion" stands for a URI-bearing request outside VENV_CHECK_METHODS.
Methods == {"hover", "definition", "completion"}

\* Ids of the client's generic requests, numbered from 1.
RequestIds == 1..MaxRequests
\* Ids the client gives its initialize and shutdown requests.
LifecycleIds == {0}
BackendIds == 1..MaxBackendIds

VARIABLES
    pool,                      \* BackendPool.backends: set of BackendInstance
    next_session,              \* BackendPool.next_session
    max_backends,              \* BackendPool.max_backends
    backend_ttl,               \* BackendPool.backend_ttl (0 = None)
    warmup_timeout,            \* warmup_timeout() (0 = queuing disabled)
    inbox,                     \* the mpsc channel backend_msg_tx/backend_msg_rx
    pending_requests,          \* ProxyState.pending_requests
    pending_backend_requests,  \* ProxyState.pending_backend_requests
    next_proxy_request_id,     \* ProxyState.next_proxy_request_id
    client_initialize,         \* ProxyState.client_initialize is Some
    open_documents,            \* ProxyState.open_documents
    pending_initial_backend,   \* run(): the pre-spawned backend, or None
    running,                   \* run() has not returned
    now,                       \* Instant::now()
    procs,                     \* child processes with their reader tasks
    next_client_id,            \* the client's next fresh request id
    answered,                  \* per client request id: responses sent so far
    created,                   \* history: (venv, session) of instances inserted
    emitted,                   \* history: proxy ids emitted toward the client
    venv_dirs,                 \* the file system: venvs whose marker file exists
    readers,                   \* per session: where its reader task stands
    received,                  \* history: what backend_msg_rx.recv() returned
    shutdown_tasks             \* per session: its fire-and-forget shutdown task

vars == <<pool, next_session, max_backends, backend_ttl, warmup_timeout, inbox,
          pending_requests, pending_backend_requests, next_proxy_request_id,
          client_initialize, open_documents, pending_initial_backend, running,
          now, procs, next_client_id, answered, created,
          emitted, venv_dirs, readers, received, shutdown_tasks>>

\* The reader tasks and the shutdown tasks taken step by step, and what the
\* loop received.
ReaderVars == <<readers, received, shutdown_tasks>>

\* venv::find_venv: the venv marker found by walking up from the file, as
\* the file system is at the time of the call.
FindVenv(uri) ==
    IF VenvAbove(uri) \in venv_dirs THEN VenvAbove(uri) ELSE None

(***************************************************************************)
(* Finite maps (HashMap) as functions.                                     *)
(***************************************************************************)
EmptyMap == [x \in {} |-> None]

MapInsert(m, k, v) == [x \in DOMAIN m \cup {k} |-> IF x = k THEN v ELSE m[x]]

MapRemove(m, k) == [x \in DOMAIN m \ {k} |-> m[x]]

MapRemoveAll(m, ks) == [x \in DOMAIN m \ ks |-> m[x]]

RECURSIVE SetToSeq(_)
\* The elements of a finite set of integers or strings, in some fixed order.
SetToSeq(S) ==
    IF S = {} THEN <<>>
    ELSE LET x == CHOOSE y \in S : TRUE IN <<x>> \o SetToSeq(S \ {x})

(***************************************************************************)
(* BackendPool                                                             *)
(***************************************************************************)
Contains(p, venv) == \E i \in p : i.venv_path = venv

Get(p, venv) == CHOOSE i \in p : i.venv_path = venv

Remove(p, venv) == {i \in p : i.venv_path # venv}

Insert(p, venv, instance) == Remove(p, venv) \cup {instance}

\* is_full with > for >=: full only once the maximum is exceeded.
IsFullOffByOne(p, max) == Cardinality(p) > max

IsFull(p, max) == Cardinality(p) >= max

BackendsKeys(p) == {i.venv_path : i \in p}

\* min_by_key over a HashMap: any of the instances with the least last_used.
MinLastUsed(insts) == {i \in insts : \A j \in insts : i.last_used <= j.last_used}

CountPending(pr, venv, session) ==
    Cardinality({id \in DOMAIN pr :
                    pr[id].venv_path = venv /\ pr[id].backend_session = session})

\* lru_venv without the preference for backends with nothing pending.
LruVenvOfAll(p, pr) == {i.venv_path : i \in MinLastUsed(p)}

\* The venvs lru_venv may return ({} stands for None).
LruVenv(p, pr) ==
    LET idle == {i \in p : CountPending(pr, i.venv_path, i.session) = 0}
    IN  IF idle # {} THEN {i.venv_path : i \in MinLastUsed(idle)}
        ELSE {i.venv_path : i \in MinLastUsed(p)}

\* expired_venvs without the age test: every backend counts as expired.
ExpiredVenvsAnyAge(p, ttl, t) ==
    IF ttl = 0 THEN {} ELSE {i.venv_path : i \in p}

ExpiredVenvs(p, ttl, t) ==
    IF ttl = 0 THEN {}
    ELSE {i.venv_path : i \in {j \in p : t - j.last_used >= ttl}}

(***************************************************************************)
(* The state a handler works on, as one record, so that the calls a        *)
(* handler makes compose in program order.  out and sent collect what the  *)
(* handler writes to the client and to the backends during the step.       *)
(***************************************************************************)
St ==
    [pool |-> pool, next_session |-> next_session,
     pending_requests |-> pending_requests,
     pending_backend_requests |-> pending_backend_requests,
     next_proxy_request_id |-> next_proxy_request_id,
     client_initialize |-> client_initialize,
     open_documents |-> open_documents,
     procs |-> procs, out |-> <<>>, sent |-> <<>>,
     answered |-> answered, created |-> created, emitted |-> emitted]

Commit(st) ==
    /\ pool' = st.pool
    /\ next_session' = st.next_session
    /\ pending_requests' = st.pending_requests
    /\ pending_backend_requests' = st.pending_backend_requests
    /\ next_proxy_request_id' = st.next_proxy_request_id
    /\ client_initialize' = st.client_initialize
    /\ open_documents' = st.open_documents
    /\ procs' = st.procs
    /\ answered' = st.answered
    /\ created' = st.created
    /\ emitted' = st.emitted

(***************************************************************************)
(* Messages written to the client (client_writer.write_message).           *)
(***************************************************************************)
ClientMsg(type, id, code, venv, session, uri) ==
    [type |-> type, id |-> id, code |-> code, venv |-> venv,
     session |-> session, uri |-> uri]

\* error_response with the cancel code in place of the internal-error code.
ErrorResponseCancelCode(id) == ClientMsg("error", id, REQUEST_CANCELLED, None, 0, "")

\* RpcMessage::error_response: the request's id with code -32603.
ErrorResponse(id) == ClientMsg("error", id, INTERNAL_ERROR, None, 0, "")

\* The cancelled-response built when a backend leaves the pool.
CancelledResponse(id) == ClientMsg("error", id, REQUEST_CANCELLED, None, 0, "")

\* A result built by the proxy itself (empty capabilities, null).
ProxyResult(id) == ClientMsg("result", id, 0, None, 0, "")

\* A backend message passed on to the client.
Forwarded(type, id, venv, session) == ClientMsg(type, id, 0, venv, session, "")

\* The responses to the client's generic requests.
IsResponseMsg(m) == m.type \in {"error", "result", "response"}

WriteClient(st, m) ==
    [st EXCEPT
        !.out = Append(@, m),
        !.answered =
            IF IsResponseMsg(m) /\ m.id \in DOMAIN @ /\ Len(@[m.id]) < 2
            THEN [@ EXCEPT ![m.id] = Append(@, m)]
            ELSE @]

RECURSIVE WriteClientAll(_, _)
WriteClientAll(st, ms) ==
    IF ms = <<>> THEN st ELSE WriteClientAll(WriteClient(st, Head(ms)), Tail(ms))

(***************************************************************************)
(* Messages written to a backend (inst.writer.write_message).  The write   *)
(* fails when the child process is gone.                                   *)
(***************************************************************************)
BackendMsg(venv, session, method, id, uri, ok) ==
    [venv |-> venv, session |-> session, method |-> method, id |-> id,
     uri |-> uri, ok |-> ok, params |-> Absent]

WriteOk(st, session) == session \in DOMAIN st.procs /\ st.procs[session].alive

\* A request leaves an id for the backend to answer; the initialized
\* notifications a child receives are counted (up to two).
WriteBackend(st, venv, session, method, id, uri) ==
    LET ok == WriteOk(st, session)
        isReq == method \in Methods \cup {"request"}
    IN  [st EXCEPT
            !.sent = Append(@, BackendMsg(venv, session, method, id, uri, ok)),
            !.procs = IF ok /\ isReq
                      THEN [@ EXCEPT ![session].written = @ \cup {id}]
                      ELSE IF ok /\ method = "initialized"
                                 /\ @[session].initialized < 2
                      THEN [@ EXCEPT ![session].initialized = @ + 1]
                      ELSE @]

\* A textDocument notification with its params.
WriteBackendDoc(st, venv, session, method, uri, params) ==
    [st EXCEPT !.sent =
        Append(@, [BackendMsg(venv, session, method, 0, uri, WriteOk(st, session))
                     EXCEPT !.params = Some(params)])]

RECURSIVE WriteBackendAll(_, _, _, _)
\* The same notification to each instance of a sequence of venvs.
WriteBackendAll(st, venvSeq, method, uri) ==
    IF venvSeq = <<>> THEN st
    ELSE LET v == Head(venvSeq)
             st1 == IF Contains(st.pool, v)
                    THEN WriteBackend(st, v, Get(st.pool, v).session, method, 0, uri)
                    ELSE st
         IN  WriteBackendAll(st1, Tail(venvSeq), method, uri)

(***************************************************************************)
(* shutdown_backend_instance: abort the reader task and start the          *)
(* fire-and-forget shutdown (a shutdown request written to the child); the *)
(* process emits nothing more.                                             *)
(***************************************************************************)
ShutdownBackendInstance(st, instance) ==
    [WriteBackend(st, instance.venv_path, instance.session, "shutdown", 0, "")
        EXCEPT !.procs = MapRemove(@, instance.session)]

(***************************************************************************)
(* diagnostics.rs                                                          *)
(***************************************************************************)
NotifyBackendError(st, venv) ==
    WriteClient(st, ClientMsg("showMessage", 0, 1, venv, 0, ""))

RECURSIVE ClearDiagnosticsForUris(_, _)
ClearDiagnosticsForUris(st, uris) ==
    IF uris = <<>> THEN st
    ELSE ClearDiagnosticsForUris(
            WriteClient(st, ClientMsg("publishDiagnostics", 0, 0, None, 0, Head(uris))),
            Tail(uris))

\* clear_diagnostics_for_venv without the venv filter.
ClearDiagnosticsForVenvAll(st, venv) ==
    ClearDiagnosticsForUris(st, SetToSeq(DOMAIN st.open_documents))

ClearDiagnosticsForVenv(st, venv) ==
    ClearDiagnosticsForUris(st,
        SetToSeq({u \in DOMAIN st.open_documents : st.open_documents[u].venv = venv}))

(***************************************************************************)
(* Pool management: eviction, crash, TTL sweep.                            *)
(***************************************************************************)
RECURSIVE CancelAll(_, _)
CancelAll(st, ids) ==
    IF ids = <<>> THEN st
    ELSE CancelAll(
            WriteClient([st EXCEPT !.pending_requests = MapRemove(@, Head(ids))],
                        CancelledResponse(Head(ids))),
            Tail(ids))

\* cancel_pending_requests_for_session that removes the entries and writes
\* nothing to the client.
CancelPendingRequestsForSessionSilent(st, old_session) ==
    [st EXCEPT !.pending_requests =
        MapRemoveAll(@, {id \in DOMAIN @ : @[id].backend_session = old_session})]

\* cancel_pending_requests_for_session without the session filter: every
\* pending request is cancelled.
CancelPendingRequestsOfAll(st, old_session) ==
    CancelAll(st, SetToSeq(DOMAIN st.pending_requests))

\* cancel_pending_requests_for_session: the entries of one session, each
\* removed and answered with the cancel code.
CancelPendingRequestsForSession(st, old_session) ==
    CancelAll(st,
        SetToSeq({id \in DOMAIN st.pending_requests :
                    st.pending_requests[id].backend_session = old_session}))

CountPendingBackend(pbr, venv, session) ==
    Cardinality({p \in DOMAIN pbr : pbr[p].venv_path = venv /\ pbr[p].session = session})

CleanPendingBackendRequests(st, venv, session) ==
    [st EXCEPT !.pending_backend_requests =
        MapRemoveAll(@, {p \in DOMAIN @ :
                            @[p].venv_path = venv /\ @[p].session = session})]

\* The sequence applied to a backend that leaves the pool.
CancelAndClear(st, venv, session) ==
    ClearDiagnosticsForVenv(
        CleanPendingBackendRequests(
            CancelPendingRequestsForSession(st, session), venv, session),
        venv)

EvictBackend(st, venv) ==
    IF ~Contains(st.pool, venv) THEN st
    ELSE LET instance == Get(st.pool, venv)
             st1 == [st EXCEPT !.pool = Remove(@, venv)]
         IN  ShutdownBackendInstance(
                CancelAndClear(st1, venv, instance.session), instance)

\* choice is what lru_venv returned.
EvictLruBackend(st, choice) ==
    IF choice = None THEN st ELSE EvictBackend(st, choice)

LruChoices(st) ==
    IF st.pool = {} THEN {None} ELSE LruVenv(st.pool, st.pending_requests)

HandleBackendCrash(st, venv, session) ==
    IF ~Contains(st.pool, venv) \/ Get(st.pool, venv).session # session THEN st
    ELSE LET instance == Get(st.pool, venv)
             st1 == [st EXCEPT !.pool = Remove(@, venv)]
             st2 == CancelAndClear(st1, venv, session)
         IN  \* reader_task.abort(); the instance is dropped without shutdown
             [st2 EXCEPT !.procs = MapRemove(@, instance.session)]

RECURSIVE EvictExpired(_, _)
EvictExpired(st, venvSeq) ==
    IF venvSeq = <<>> THEN st
    ELSE LET v == Head(venvSeq)
             busy ==
                \/ ~Contains(st.pool, v)
                \/ CountPending(st.pending_requests, v, Get(st.pool, v).session) > 0
                \/ CountPendingBackend(st.pending_backend_requests, v,
                                       Get(st.pool, v).session) > 0
         IN  EvictExpired(IF busy THEN st ELSE EvictBackend(st, v), Tail(venvSeq))

EvictExpiredBackends(st, ttl, t) ==
    EvictExpired(st, SetToSeq(ExpiredVenvs(st.pool, ttl, t)))

(***************************************************************************)
(* Backend instances and their creation (initialization.rs).               *)
(***************************************************************************)
NoInstance == [venv_path |-> None, session |-> 0, last_used |-> 0,
               warmup_state |-> "Ready", warmup_deadline |-> 0,
               warmup_queue |-> <<>>]

\* An instance that starts Warming whatever the timeout.
NewInstanceAlwaysWarming(venv, session, t, wt) ==
    [venv_path |-> venv, session |-> session, last_used |-> t,
     warmup_state |-> "Warming", warmup_deadline |-> t + wt,
     warmup_queue |-> <<>>]

\* BackendInstance { .. } as built after a successful handshake.  The
\* deadline is read only while the instance is Warming.
NewInstance(venv, session, t, wt) ==
    [venv_path |-> venv, session |-> session, last_used |-> t,
     warmup_state |-> IF wt = 0 THEN "Ready" ELSE "Warming",
     warmup_deadline |-> IF wt = 0 THEN 0 ELSE t + wt, warmup_queue |-> <<>>]

IsWarming(instance) == instance.warmup_state = "Warming"

\* next_session_id without the increment.
NextSessionIdStuck(n) == n

NextSessionId(n) == n + 1

\* spawn_reader_task over the child's stdout: the process may now emit.
SpawnProc(st, venv, session) ==
    [st EXCEPT !.procs = MapInsert(@, session,
                            [venv |-> venv, alive |-> TRUE, written |-> {},
                             initialized |-> 0])]

\* file_path.starts_with(venv.parent())
UnderVenvParent(uri, venv) ==
    \/ uri = "/a/x.py" /\ venv = "/a"
    \/ uri = "/b/y.py" /\ venv = "/b"

\* The replay without the fallback on the file's path.
ShouldRestoreByVenvOnly(docs, uri, venv) == docs[uri].venv = venv

\* should_restore: the stored venv is this one, or the file lies under the
\* venv's parent directory.
ShouldRestore(docs, uri, venv) ==
    docs[uri].venv = venv \/ UnderVenvParent(uri, venv)

\* The textDocument of a didOpen built from a cached document.
DidOpenParams(doc) ==
    [language_id |-> doc.language_id, version |-> doc.version, text |-> doc.text]

RECURSIVE RestoreAll(_, _, _, _)
RestoreAll(st, venv, session, uris) ==
    IF uris = <<>> THEN st
    ELSE RestoreAll(
            WriteBackendDoc(st, venv, session, "didOpen", Head(uris),
                            DidOpenParams(st.open_documents[Head(uris)])),
            venv, session, Tail(uris))

RestoreDocumentsToBackend(st, venv, session) ==
    RestoreAll(st, venv, session,
        SetToSeq({u \in DOMAIN st.open_documents :
                    ShouldRestore(st.open_documents, u, venv)}))

\* What backend.read_message() under the deadline yields while the proxy
\* waits for the initialize response: a notification or a request, a
\* response with another id, the response with id 1 with or without an
\* error, a read error, or the timeout.
HandshakeReads == {"notification", "response_other", "response_ok",
                   "response_error", "read_error", "timeout"}

\* The read loop that takes the first response as the initialize response.
ReadInitializeResponseAnyId(reads) ==
    IF reads = <<>> THEN "timeout"
    ELSE LET decisive == {k \in 1..Len(reads) : reads[k] # "notification"}
             first == CHOOSE k \in decisive : \A j \in decisive : k <= j
         IN  IF decisive = {} THEN "timeout"
             ELSE IF reads[first] \in {"response_ok", "response_other"} THEN "ok"
             ELSE reads[first]

\* The read loop of the handshake: "ok", or the error it returns with.  The
\* deadline passes when the child sends nothing more.
RECURSIVE ReadLoop(_)
ReadLoop(reads) ==
    IF reads = <<>> THEN "timeout"
    ELSE IF Head(reads) \in {"notification", "response_other"}
    THEN ReadLoop(Tail(reads))
    ELSE IF Head(reads) = "response_ok" THEN "ok"
    ELSE Head(reads)

ReadInitializeResponse(reads) == ReadLoop(reads)

\* The handshake: initialize (id 1), the response, then initialized.
\* outcome is what the child does: "ok", "spawn_failed" or "init_failed".
Handshake(st, venv, session, outcome) ==
    LET st1 == WriteBackend(SpawnProc(st, venv, session), venv, session,
                            "initialize", 1, "")
    IN  IF outcome = "ok"
        THEN [st |-> WriteBackend(st1, venv, session, "initialized", 0, ""),
              ok |-> TRUE]
        ELSE [st |-> [st1 EXCEPT !.procs = MapRemove(@, session)], ok |-> FALSE]

CreateBackendInstance(st, venv, outcome, t, wt) ==
    LET session == NextSessionId(st.next_session)
        st1 == [st EXCEPT !.next_session = session]
        failed == [st |-> st1, ok |-> FALSE, instance |-> NoInstance]
    IN  IF outcome = "spawn_failed" \/ ~st.client_initialize THEN failed
        ELSE LET h == Handshake(st1, venv, session, outcome)
             IN  IF ~h.ok THEN [failed EXCEPT !.st = h.st]
                 ELSE [st |-> RestoreDocumentsToBackend(h.st, venv, session),
                       ok |-> TRUE,
                       instance |-> NewInstance(venv, session, t, wt)]

\* pool.insert, with the history of inserted instances.
InsertInstance(st, venv, instance) ==
    [st EXCEPT !.pool = Insert(@, venv, instance),
               !.created = Append(@, [venv |-> venv, session |-> instance.session])]

\* ensure_backend_in_pool: the venv to route to (None when none resolves),
\* err when the backend could not be created.
EnsureBackendInPool(st, uri, choice, outcome, t, wt) ==
    LET target == IF uri \in DOMAIN st.open_documents
                  THEN st.open_documents[uri].venv ELSE FindVenv(uri)
    IN  IF target = None THEN [st |-> st, venv |-> None, err |-> FALSE]
        ELSE IF Contains(st.pool, target)
        THEN [st |-> st, venv |-> target, err |-> FALSE]
        ELSE LET st1 == IF IsFull(st.pool, max_backends)
                        THEN EvictLruBackend(st, choice) ELSE st
                 c == CreateBackendInstance(st1, target, outcome, t, wt)
             IN  IF c.ok
                 THEN [st |-> InsertInstance(c.st, target, c.instance),
                       venv |-> target, err |-> FALSE]
                 ELSE [st |-> NotifyBackendError(c.st, target),
                       venv |-> None, err |-> TRUE]

(***************************************************************************)
(* Client-direction dispatch (client_dispatch.rs, document.rs).            *)
(***************************************************************************)
Touch(st, venv, t) ==
    [st EXCEPT !.pool =
        {IF i.venv_path = venv THEN [i EXCEPT !.last_used = t] ELSE i : i \in @}]

\* The entry written without the session of its backend.
PendingRequestNoSession(venv, session) ==
    [venv_path |-> venv, backend_session |-> 0]

PendingRequest(venv, session) == [venv_path |-> venv, backend_session |-> session]

\* pib is the pre-spawned backend's venv, or None.
DispatchInitialize(st, id, pib, outcome, t, wt) ==
    LET st1 == [st EXCEPT !.client_initialize = TRUE]
    IN  IF pib = None THEN WriteClient(st1, ProxyResult(id))
        ELSE LET session == NextSessionId(st1.next_session)
                 h == Handshake(st1, pib, session, outcome)
             IN  IF h.ok
                 THEN WriteClient(
                        InsertInstance([h.st EXCEPT !.next_session = session],
                                       pib, NewInstance(pib, session, t, wt)),
                        Forwarded("initializeResponse", 1, pib, session))
                 ELSE WriteClient(h.st, ProxyResult(id))

DispatchInitialized(st) ==
    WriteBackendAll(st, SetToSeq(BackendsKeys(st.pool)), "initialized", "")

RECURSIVE ShutdownAll(_, _)
ShutdownAll(st, venvSeq) ==
    IF venvSeq = <<>> THEN st
    ELSE LET v == Head(venvSeq)
             st1 == IF Contains(st.pool, v)
                    THEN ShutdownBackendInstance(
                            [st EXCEPT !.pool = Remove(@, v)], Get(st.pool, v))
                    ELSE st
         IN  ShutdownAll(st1, Tail(venvSeq))

\* dispatch_shutdown that stops at the first backend of the pool.
DispatchShutdownFirstOnly(st, id) ==
    LET venvs == SetToSeq(BackendsKeys(st.pool))
    IN  WriteClient(ShutdownAll(st, IF venvs = <<>> THEN venvs ELSE <<Head(venvs)>>),
                    ProxyResult(id))

DispatchShutdown(st, id) ==
    WriteClient(ShutdownAll(st, SetToSeq(BackendsKeys(st.pool))), ProxyResult(id))

\* dispatch_client_response without the session comparison.
DispatchClientResponseAnySession(st, pid) ==
    IF pid \notin DOMAIN st.pending_backend_requests THEN st
    ELSE LET pending == st.pending_backend_requests[pid]
             st1 == [st EXCEPT !.pending_backend_requests = MapRemove(@, pid)]
         IN  IF Contains(st1.pool, pending.venv_path)
             THEN WriteBackend(st1, pending.venv_path,
                               Get(st1.pool, pending.venv_path).session,
                               "response", pending.original_id, "")
             ELSE st1

\* A client response to a backend-originated request (proxy id pid).
DispatchClientResponse(st, pid) ==
    IF pid \notin DOMAIN st.pending_backend_requests THEN st
    ELSE LET pending == st.pending_backend_requests[pid]
             st1 == [st EXCEPT !.pending_backend_requests = MapRemove(@, pid)]
         IN  IF /\ Contains(st1.pool, pending.venv_path)
                /\ Get(st1.pool, pending.venv_path).session = pending.session
             THEN WriteBackend(st1, pending.venv_path, pending.session,
                               "response", pending.original_id, "")
             ELSE st1

\* state::OpenDocument
OpenDocument(language_id, version, text, venv) ==
    [language_id |-> language_id, version |-> version, text |-> text,
     venv |-> venv]

\* The textDocument of a didOpen as the client sends it; language_id is
\* None, version and text are Absent, when the client leaves them out.
TextDocumentItem(uri, language_id, version, text) ==
    [uri |-> uri, language_id |-> language_id, version |-> version,
     text |-> text]

\* td is the textDocument of the notification.
\* handle_did_open that forwards the notification to the backend it has
\* just created as well.
HandleDidOpenForwardAlways(st, td, choice, outcome, t, wt) ==
    IF ~ToFilePathOk(td.uri) THEN st
    ELSE LET found == FindVenv(td.uri)
             st1 == IF td.text = Absent THEN st
                    ELSE [st EXCEPT !.open_documents =
                            MapInsert(@, td.uri,
                                OpenDocument(td.language_id,
                                             IF td.version = Absent THEN 0
                                             ELSE td.version[1],
                                             td.text[1], found))]
             st2 == IF found # None /\ ~Contains(st1.pool, found)
                       /\ IsFull(st1.pool, max_backends)
                    THEN EvictLruBackend(st1, choice) ELSE st1
             c == CreateBackendInstance(st2, found, outcome, t, wt)
             st3 == IF found = None \/ Contains(st1.pool, found) THEN st1
                    ELSE IF c.ok THEN InsertInstance(c.st, found, c.instance)
                    ELSE c.st
         IN  IF found = None \/ ~Contains(st3.pool, found) THEN st3
             ELSE WriteBackendDoc(Touch(st3, found, t), found,
                                  Get(st3.pool, found).session, "didOpen", td.uri,
                                  [language_id |-> td.language_id,
                                   version |-> td.version, text |-> td.text])

HandleDidOpen(st, td, choice, outcome, t, wt) ==
    IF ~ToFilePathOk(td.uri) THEN st
    ELSE LET uri == td.uri
             language_id == IF td.language_id = None THEN "unknown"
                            ELSE td.language_id
             version == IF td.version = Absent THEN 0 ELSE td.version[1]
             found == FindVenv(uri)
             st1 == IF td.text = Absent THEN st
                    ELSE [st EXCEPT !.open_documents =
                            MapInsert(@, uri,
                                OpenDocument(language_id, version, td.text[1],
                                             found))]
         IN  IF found = None THEN st1
             ELSE IF ~Contains(st1.pool, found)
             THEN LET st2 == IF IsFull(st1.pool, max_backends)
                             THEN EvictLruBackend(st1, choice) ELSE st1
                      c == CreateBackendInstance(st2, found, outcome, t, wt)
                  IN  IF c.ok THEN InsertInstance(c.st, found, c.instance)
                      ELSE c.st
             ELSE WriteBackendDoc(Touch(st1, found, t), found,
                                  Get(st1.pool, found).session, "didOpen", uri,
                                  [language_id |-> td.language_id,
                                   version |-> td.version, text |-> td.text])

\* The venv resolved again from the disk instead of read from the cache.
VenvForUriResolved(st, uri) == FindVenv(uri)

\* venv_for_uri: the venv stored with the cached document.
VenvForUri(st, uri) ==
    IF uri \in DOMAIN st.open_documents THEN st.open_documents[uri].venv ELSE None

\* The forwarding of didChange / didClose to the document's backend.
ForwardToDocBackend(st, venv, method, uri, params, t) ==
    IF venv # None /\ Contains(st.pool, venv)
    THEN WriteBackendDoc(Touch(st, venv, t), venv, Get(st.pool, venv).session,
                         method, uri, params)
    ELSE st

\* A content change: range is Absent (full sync) or <<start_line,
\* start_character, end_line, end_character>>.
ContentChange(range, text) == [range |-> range, text |-> text]

\* A text is a String: a sequence of UTF-8 bytes.  "a" and "b" are
\* one-byte characters, "nl" is the newline, "e1" "e2" are the two bytes of
\* a character of the Basic Multilingual Plane (one UTF-16 unit) and "s1"
\* .. "s4" the four bytes of a character outside it (a surrogate pair in
\* UTF-16).  Byte offsets count from 0.
IsCharBoundary(text, offset) ==
    offset = Len(text) \/ text[offset + 1] \notin {"e2", "s2", "s3", "s4"}

\* len_utf16 with every character counted as one unit.
LenUtf16OneUnit(byte) == 1

\* char::len_utf16 of the character that starts with this byte.
LenUtf16(byte) == IF byte = "s1" THEN 2 ELSE 1

RECURSIVE ScanLine(_, _, _, _, _)
\* The loop of find_offset_in_line, at the character that starts at idx.
ScanLine(text, idx, line_end, character, utf16_offset) ==
    IF idx >= line_end THEN line_end
    ELSE IF ~IsCharBoundary(text, idx)
    THEN ScanLine(text, idx + 1, line_end, character, utf16_offset)
    ELSE IF utf16_offset >= character THEN idx
    ELSE ScanLine(text, idx + 1, line_end, character,
                  utf16_offset + LenUtf16(text[idx + 1]))

\* The character taken as a count of bytes.
FindOffsetInLineBytes(text, line_start, line_end, character) ==
    IF line_start + character < line_end THEN line_start + character
    ELSE line_end

FindOffsetInLine(text, line_start, line_end, character) ==
    ScanLine(text, line_start, line_end, character, 0)

RECURSIVE ScanText(_, _, _, _, _, _)
\* The loop of position_to_offset over char_indices, at byte idx; -1 is the
\* out-of-range error.
ScanText(text, idx, current_line, line_start_offset, line, character) ==
    IF idx = Len(text)
    THEN IF current_line = line
         THEN FindOffsetInLine(text, line_start_offset, Len(text), character)
         ELSE -1
    ELSE IF text[idx + 1] = "nl"
    THEN IF current_line = line
         THEN FindOffsetInLine(text, line_start_offset, idx, character)
         ELSE ScanText(text, idx + 1, current_line + 1, idx + 1, line, character)
    ELSE ScanText(text, idx + 1, current_line, line_start_offset, line, character)

PositionToOffset(text, line, character) == ScanText(text, 0, 0, 0, line, character)

ApplyIncrementalChange(text, range, new_text) ==
    LET start_offset == PositionToOffset(text, range[1], range[2])
        end_offset == PositionToOffset(text, range[3], range[4])
    IN  IF start_offset = -1 \/ end_offset = -1 \/ start_offset > end_offset
        THEN [ok |-> FALSE, text |-> text]
        ELSE [ok |-> TRUE,
              text |-> SubSeq(text, 1, start_offset) \o new_text
                         \o SubSeq(text, end_offset + 1, Len(text))]

RECURSIVE ApplyChanges(_, _)
\* The changes of one didChange in order, up to the first that fails.
ApplyChanges(text, changes) ==
    IF changes = <<>> THEN [ok |-> TRUE, text |-> text]
    ELSE LET change == Head(changes)
         IN  IF change.range = Absent
             THEN ApplyChanges(change.text, Tail(changes))
             ELSE LET r == ApplyIncrementalChange(text, change.range, change.text)
                  IN  IF r.ok THEN ApplyChanges(r.text, Tail(changes)) ELSE r

\* Only the last content change of the notification applied.
HandleDidChangeLastOnly(st, uri, version, changes) ==
    IF changes = <<>> \/ uri \notin DOMAIN st.open_documents
    THEN [st |-> st, err |-> FALSE]
    ELSE LET doc == st.open_documents[uri]
             r == ApplyChanges(doc.text, <<changes[Len(changes)]>>)
         IN  [st |-> [st EXCEPT !.open_documents[uri].text = r.text],
              err |-> ~r.ok]

\* version is Absent when the notification carries none.  err is the Err
\* the handler returns.
HandleDidChange(st, uri, version, changes) ==
    IF changes = <<>> \/ uri \notin DOMAIN st.open_documents
    THEN [st |-> st, err |-> FALSE]
    ELSE LET doc == st.open_documents[uri]
             r == ApplyChanges(doc.text, changes)
         IN  IF ~r.ok
             THEN [st |-> [st EXCEPT !.open_documents[uri].text = r.text],
                   err |-> TRUE]
             ELSE [st |-> [st EXCEPT !.open_documents[uri] =
                            [doc EXCEPT !.text = r.text,
                                        !.version = IF version = Absent THEN @
                                                    ELSE version[1]]],
                   err |-> FALSE]

\* The didChange arm of run: update the cache, then forward.
DispatchDidChange(st, uri, version, changes, t) ==
    LET h == HandleDidChange(st, uri, version, changes)
    IN  IF h.err THEN h
        ELSE [st |-> ForwardToDocBackend(h.st, VenvForUri(h.st, uri), "didChange",
                                         uri, [version |-> version,
                                               changes |-> changes], t),
              err |-> FALSE]

HandleDidClose(st, uri, t) ==
    ForwardToDocBackend([st EXCEPT !.open_documents = MapRemove(@, uri)],
                        VenvForUri(st, uri), "didClose", uri, [uri |-> uri], t)

DispatchClientNotification(st, method) ==
    WriteBackendAll(st, SetToSeq(BackendsKeys(st.pool)), method, "")

QueueWithout(queue, id) == SelectSeq(queue, LAMBDA r : r.id # id)

InQueue(queue, id) == \E k \in 1..Len(queue) : queue[k].id = id

\* The cancel forwarded without looking at the warmup queues.
DispatchCancelRequestForwardAlways(st, id) ==
    DispatchClientNotification(st, "$/cancelRequest")

DispatchCancelRequest(st, id) ==
    LET pr == st.pending_requests
        queued ==
            /\ id \in DOMAIN pr
            /\ Contains(st.pool, pr[id].venv_path)
            /\ Get(st.pool, pr[id].venv_path).session = pr[id].backend_session
            /\ InQueue(Get(st.pool, pr[id].venv_path).warmup_queue, id)
    IN  IF queued
        THEN [st EXCEPT
                !.pool = {IF i.venv_path = pr[id].venv_path
                          THEN [i EXCEPT !.warmup_queue = QueueWithout(@, id)]
                          ELSE i : i \in @},
                !.pending_requests = MapRemove(@, id)]
        ELSE DispatchClientNotification(st, "$/cancelRequest")

\* A failed write answered with an error and the pending entry dropped.
SendToTargetOrFail(st, id, method, uri, venv, t) ==
    IF ~Contains(st.pool, venv) \/ ~WriteOk(st, Get(st.pool, venv).session)
    THEN WriteClient(st, ErrorResponse(id))
    ELSE WriteBackend(
            [Touch(st, venv, t) EXCEPT !.pending_requests =
                MapInsert(@, id, PendingRequest(venv, Get(st.pool, venv).session))],
            venv, Get(st.pool, venv).session, method, id, uri)

\* A request queued during warmup without its pending entry.
SendToTargetQueueOnly(st, id, method, uri, venv, t) ==
    IF ~Contains(st.pool, venv) THEN WriteClient(st, ErrorResponse(id))
    ELSE LET st1 == Touch(st, venv, t)
             inst == Get(st1.pool, venv)
         IN  IF IsWarming(inst) /\ method \in INDEX_DEPENDENT_METHODS
             THEN [st1 EXCEPT !.pool =
                    {IF i.venv_path = venv
                     THEN [i EXCEPT !.warmup_queue =
                            Append(@, [id |-> id, method |-> method, uri |-> uri])]
                     ELSE i : i \in @}]
             ELSE WriteBackend(
                    [st1 EXCEPT !.pending_requests =
                        MapInsert(@, id, PendingRequest(venv, inst.session))],
                    venv, inst.session, method, id, uri)

\* The request reaches its target: queued during warmup, or written.
SendToTarget(st, id, method, uri, venv, t) ==
    IF ~Contains(st.pool, venv) THEN WriteClient(st, ErrorResponse(id))
    ELSE LET st1 == Touch(st, venv, t)
             inst == Get(st1.pool, venv)
             st2 == [st1 EXCEPT !.pending_requests =
                        MapInsert(@, id, PendingRequest(venv, inst.session))]
         IN  IF IsWarming(inst) /\ method \in INDEX_DEPENDENT_METHODS
             THEN [st2 EXCEPT !.pool =
                    {IF i.venv_path = venv
                     THEN [i EXCEPT !.warmup_queue =
                            Append(@, [id |-> id, method |-> method, uri |-> uri])]
                     ELSE i : i \in @}]
             ELSE WriteBackend(st2, venv, inst.session, method, id, uri)

ForwardToFirstBackend(st, id, method, t) ==
    LET venv == CHOOSE v \in BackendsKeys(st.pool) : TRUE
        st1 == Touch(st, venv, t)
        inst == Get(st1.pool, venv)
    IN  WriteBackend([st1 EXCEPT !.pending_requests =
                        MapInsert(@, id, PendingRequest(venv, inst.session))],
                     venv, inst.session, method, id, "")

\* The request arm written out in LspProxy::run (proxy/mod.rs): the same
\* resolution of the target, no warmup queue, and a request without a
\* target forwarded to the first backend whenever the pool is not empty.
RunClientRequest(st, id, method, uri, choice, outcome, t, wt) ==
    LET check == method \in VENV_CHECK_METHODS /\ uri # None /\ ToFilePathOk(uri)
        e == IF check THEN EnsureBackendInPool(st, uri, choice, outcome, t, wt)
             ELSE [st |-> st, venv |-> None, err |-> FALSE]
        target == IF e.venv # None THEN e.venv
                  ELSE IF uri # None THEN VenvForUri(e.st, uri) ELSE None
    IN  IF check /\ e.venv = None THEN WriteClient(e.st, ErrorResponse(id))
        ELSE IF target # None
        THEN IF Contains(e.st.pool, target)
             THEN LET st1 == Touch(e.st, target, t)
                      session == Get(st1.pool, target).session
                  IN  WriteBackend([st1 EXCEPT !.pending_requests =
                                        MapInsert(@, id, PendingRequest(target, session))],
                                   target, session, method, id, uri)
             ELSE WriteClient(e.st, ErrorResponse(id))
        ELSE IF e.st.pool = {} THEN WriteClient(e.st, ErrorResponse(id))
        ELSE ForwardToFirstBackend(e.st, id, method, t)

\* Best-effort routing in place of strict mode.
DispatchClientRequestBestEffort(st, id, method, uri, choice, outcome, t, wt) ==
    RunClientRequest(st, id, method, uri, choice, outcome, t, wt)

\* uri = None is a request without textDocument.uri.
DispatchClientRequest(st, id, method, uri, choice, outcome, t, wt) ==
    IF uri = None
    THEN IF st.pool = {} THEN WriteClient(st, ErrorResponse(id))
         ELSE IF Cardinality(st.pool) = 1 THEN ForwardToFirstBackend(st, id, method, t)
         ELSE WriteClient(st, ErrorResponse(id))
    ELSE IF method \in VENV_CHECK_METHODS /\ ToFilePathOk(uri)
    THEN LET e == EnsureBackendInPool(st, uri, choice, outcome, t, wt)
         IN  IF e.venv = None THEN WriteClient(e.st, ErrorResponse(id))
             ELSE SendToTarget(e.st, id, method, uri, e.venv, t)
    ELSE IF VenvForUri(st, uri) # None
    THEN SendToTarget(st, id, method, uri, VenvForUri(st, uri), t)
    ELSE IF ~ToFilePathOk(uri) THEN WriteClient(st, ErrorResponse(id))
    ELSE LET e == EnsureBackendInPool(st, uri, choice, outcome, t, wt)
         IN  IF e.venv = None THEN WriteClient(e.st, ErrorResponse(id))
             ELSE SendToTarget(e.st, id, method, uri, e.venv, t)

(***************************************************************************)
(* Backend-direction dispatch (the inbox arm of run).                      *)
(***************************************************************************)
\* The stale check without the session comparison.
IsCurrentIgnoringSession(p, venv, session) == Contains(p, venv)

IsCurrent(p, venv, session) == Contains(p, venv) /\ Get(p, venv).session = session

\* alloc_proxy_request_id without the decrement.
AllocProxyRequestIdStuck(n) == n

\* ProxyState::alloc_proxy_request_id: the counter after handing out one id.
AllocProxyRequestId(n) == n - 1

PendingBackendRequest(original_id, venv, session) ==
    [original_id |-> original_id, venv_path |-> venv, session |-> session]

ForwardBackendRequest(st, m) ==
    LET proxy_id == st.next_proxy_request_id
        st1 == [st EXCEPT
                  !.next_proxy_request_id = AllocProxyRequestId(@),
                  !.pending_backend_requests = MapInsert(@, proxy_id,
                        PendingBackendRequest(m.id, m.venv_path, m.session)),
                  !.emitted = Append(@, proxy_id)]
    IN  WriteClient(st1, Forwarded("request", proxy_id, m.venv_path, m.session))

\* The (venv, session) comparison left out.
PendingMatchesAlways(pending, m) == TRUE

\* The entry of a response's id matches the message's (venv, session).
PendingMatches(pending, m) ==
    pending.backend_session = m.session /\ pending.venv_path = m.venv_path

ForwardBackendResponse(st, m) ==
    IF m.id \in DOMAIN st.pending_requests
    THEN LET st1 == [st EXCEPT !.pending_requests = MapRemove(@, m.id)]
         IN  IF PendingMatches(st.pending_requests[m.id], m)
             THEN WriteClient(st1, Forwarded("response", m.id, m.venv_path, m.session))
             ELSE st1
    ELSE WriteClient(st, Forwarded("response", m.id, m.venv_path, m.session))

\* The dispatch without the stale check on (venv, session).
DispatchBackendMessageUnchecked(st, m) ==
    CASE m.kind = "error" -> HandleBackendCrash(st, m.venv_path, m.session)
      [] m.kind = "request" -> ForwardBackendRequest(st, m)
      [] m.kind = "response" -> ForwardBackendResponse(st, m)
      [] OTHER ->
           WriteClient(st, Forwarded("notification", 0, m.venv_path, m.session))

DispatchBackendMessage(st, m) ==
    IF ~IsCurrent(st.pool, m.venv_path, m.session) THEN st
    ELSE CASE m.kind = "error" -> HandleBackendCrash(st, m.venv_path, m.session)
           [] m.kind = "request" -> ForwardBackendRequest(st, m)
           [] m.kind = "response" -> ForwardBackendResponse(st, m)
           [] OTHER ->
                WriteClient(st, Forwarded("notification", 0, m.venv_path, m.session))

(***************************************************************************)
(* Warmup: the deadline elapses, the instance becomes Ready and its queue  *)
(* is drained.                                                             *)
(***************************************************************************)
\* The body of the drain loop without the session guard.
DrainRequestAnySession(st, venv, expected_session, request) ==
    IF ~Contains(st.pool, venv) THEN st
    ELSE LET session == Get(st.pool, venv).session
         IN  IF WriteOk(st, session)
             THEN WriteBackend(st, venv, session, request.method, request.id,
                               request.uri)
             ELSE WriteClient(
                     [WriteBackend(st, venv, session, request.method,
                                   request.id, request.uri)
                         EXCEPT !.pending_requests = MapRemove(@, request.id)],
                     ErrorResponse(request.id))

\* The body of the drain loop, for one queued request.
DrainRequest(st, venv, expected_session, request) ==
    IF ~IsCurrent(st.pool, venv, expected_session)
    THEN [st EXCEPT !.pending_requests = MapRemove(@, request.id)]
    ELSE IF WriteOk(st, expected_session)
    THEN WriteBackend(st, venv, expected_session, request.method,
                      request.id, request.uri)
    ELSE WriteClient(
            [WriteBackend(st, venv, expected_session, request.method,
                          request.id, request.uri)
                EXCEPT !.pending_requests = MapRemove(@, request.id)],
            ErrorResponse(request.id))

RECURSIVE DrainWarmupQueue(_, _, _, _)
DrainWarmupQueue(st, venv, expected_session, queued) ==
    IF queued = <<>> THEN st
    ELSE DrainWarmupQueue(DrainRequest(st, venv, expected_session, Head(queued)),
                          venv, expected_session, Tail(queued))

ExpireWarmup(st, venv) ==
    LET inst == Get(st.pool, venv)
        st1 == [st EXCEPT !.pool =
                  {IF i.venv_path = venv
                   THEN [i EXCEPT !.warmup_state = "Ready", !.warmup_deadline = 0,
                                  !.warmup_queue = <<>>]
                   ELSE i : i \in @}]
    IN  DrainWarmupQueue(st1, venv, inst.session, inst.warmup_queue)

(***************************************************************************)
(* The steps.                                                              *)
(***************************************************************************)
Outcomes == {"ok", "spawn_failed", "init_failed"}

InboxMsg(venv, session, kind, id) ==
    [venv_path |-> venv, session |-> session, kind |-> kind, id |-> id]

Config == <<max_backends, backend_ttl, warmup_timeout>>

\* The state after construction, whatever the configuration.
InitState ==
    /\ pool = {}
    /\ next_session = 0
    /\ inbox = <<>>
    /\ pending_requests = EmptyMap
    /\ pending_backend_requests = EmptyMap
    /\ next_proxy_request_id = -1
    /\ client_initialize = FALSE
    /\ open_documents = EmptyMap
    /\ running = TRUE
    /\ now = 0
    /\ procs = EmptyMap
    /\ next_client_id = 1
    /\ answered = [r \in RequestIds |-> <<>>]
    /\ created = <<>>
    /\ emitted = <<>>
    /\ venv_dirs = Venvs
    /\ readers = [s \in 1..MaxSession |->
                    [read |-> 0, held |-> None, stopped |-> FALSE]]
    /\ received = <<>>
    /\ shutdown_tasks = [s \in 1..MaxSession |->
                            [pc |-> "none", child |-> "running", log |-> <<>>]]

\* max_backends >= 1 (clap range 1..); a TTL of 0 disables the sweep; the
\* fallback venv, when one is found at start, is pre-spawned.
Init ==
    /\ InitState
    /\ max_backends \in 1..MaxPool
    /\ backend_ttl \in 0..MaxTtl
    /\ warmup_timeout \in 0..MaxWarmup
    /\ pending_initial_backend \in {None, FallbackVenv}

\* A step of the event loop that keeps the loop running and ends in st.
LoopStep(st) ==
    /\ running
    /\ st.next_session <= MaxSession
    /\ Commit(st)
    /\ UNCHANGED <<Config, running, now, venv_dirs, ReaderVars>>

\* The client numbers its requests 1, 2, ...
FreshId ==
    /\ next_client_id <= MaxRequests
    /\ next_client_id' = next_client_id + 1

NoId == UNCHANGED next_client_id

\* The generic requests the client has sent.
Seen == 1..(next_client_id - 1)

ClientInitialize ==
    /\ NoId
    /\ \E id \in LifecycleIds, outcome \in {"ok", "init_failed"} :
         LoopStep(DispatchInitialize(St, id, pending_initial_backend,
                                     outcome, now, warmup_timeout))
    /\ pending_initial_backend' = None
    /\ UNCHANGED inbox

ClientInitialized ==
    /\ LoopStep(DispatchInitialized(St))
    /\ NoId
    /\ UNCHANGED <<pending_initial_backend, inbox>>

ClientShutdown ==
    /\ NoId
    /\ \E id \in LifecycleIds : LoopStep(DispatchShutdown(St, id))
    /\ UNCHANGED <<pending_initial_backend, inbox>>

\* run returns: the proxy and everything it owns is gone.
Terminate ==
    /\ running
    /\ running' = FALSE
    /\ Commit([St EXCEPT !.pool = {}, !.pending_requests = EmptyMap,
                         !.pending_backend_requests = EmptyMap,
                         !.open_documents = EmptyMap, !.procs = EmptyMap])
    /\ inbox' = <<>>
    /\ pending_initial_backend' = None
    /\ UNCHANGED <<Config, now, next_client_id, venv_dirs, ReaderVars>>

ClientExit == Terminate

ClientResponse ==
    /\ \E k \in 1..Len(emitted) : LoopStep(DispatchClientResponse(St, emitted[k]))
    /\ NoId
    /\ UNCHANGED <<pending_initial_backend, inbox>>

\* The documents the client opens, and one didOpen that carries no text.
OpenItems ==
    {TextDocumentItem(uri, "python", Some(1), Some(<<"a">>)) : uri \in Uris}
        \cup {TextDocumentItem("/a/x.py", None, Absent, Absent)}

ClientDidOpen ==
    /\ \E td \in OpenItems, choice \in LruChoices(St), outcome \in Outcomes :
         LoopStep(HandleDidOpen(St, td, choice, outcome, now, warmup_timeout))
    /\ NoId
    /\ UNCHANGED <<pending_initial_backend, inbox>>

\* What the child sends while the handshake waits.
ReadSeqs ==
    UNION {[1..n -> HandshakeReads] : n \in 0..MaxReads}

\* didOpen, with the messages a newly spawned child sends during its
\* handshake.
ClientDidOpenReads ==
    /\ \E td \in OpenItems, choice \in LruChoices(St), reads \in ReadSeqs :
         LoopStep(HandleDidOpen(St, td, choice, ReadInitializeResponse(reads),
                                now, warmup_timeout))
    /\ NoId
    /\ UNCHANGED <<pending_initial_backend, inbox>>

\* The contentChanges the client sends: none, a full text, a replacement of
\* the line whose end lies past the end of the line, a full text followed by
\* a replacement, and a range whose start lies after its end.
ChangeInputs ==
    {<<>>,
     <<ContentChange(Absent, <<"b">>)>>,
     <<ContentChange(<<0, 0, 0, MaxTextLen + 1>>, <<"b">>)>>,
     <<ContentChange(Absent, <<"b">>), ContentChange(<<0, 0, 0, 1>>, <<"a">>)>>,
     <<ContentChange(<<0, 1, 0, 0>>, <<"b">>)>>}

\* An Err of handle_did_change leaves run through the ? operator.
ClientDidChange ==
    \E uri \in Uris, version \in {Absent, Some(MaxVersion)},
       changes \in ChangeInputs :
        LET d == DispatchDidChange(St, uri, version, changes, now)
        IN  IF d.err THEN Terminate
            ELSE /\ \A u \in DOMAIN d.st.open_documents :
                       Len(d.st.open_documents[u].text) <= MaxTextLen
                 /\ LoopStep(d.st)
                 /\ NoId
                 /\ UNCHANGED <<pending_initial_backend, inbox>>

\* The characters of the texts the client opens: "a", the newline, a
\* two-byte character and a four-byte character.
Chars == {<<"a">>, <<"nl">>, <<"e1", "e2">>, <<"s1", "s2", "s3", "s4">>}

RECURSIVE TextsOf(_)
\* The texts of at most n characters.
TextsOf(n) ==
    IF n = 0 THEN {<<>>}
    ELSE TextsOf(n - 1) \cup {t \o c : t \in TextsOf(n - 1), c \in Chars}

Texts == {t \in TextsOf(MaxChars) : Len(t) <= MaxTextBytes}

\* The ranges and the replacement texts of the incremental changes.
Ranges ==
    {<<sl, sc, el, ec>> : sl \in 0..MaxLine, sc \in 0..MaxCharacter,
                          el \in 0..MaxLine, ec \in 0..MaxCharacter}

NewTexts == {<<>>, <<"b">>, <<"nl">>, <<"e1", "e2">>}

\* didOpen of a file outside every venv, with any of the texts.
ClientDidOpenText ==
    /\ \E text \in Texts, choice \in LruChoices(St), outcome \in Outcomes :
         LoopStep(HandleDidOpen(St,
                    TextDocumentItem("/z.py", "python", Some(1), Some(text)),
                    choice, outcome, now, warmup_timeout))
    /\ NoId
    /\ UNCHANGED <<pending_initial_backend, inbox>>

\* didChange with one incremental change.
ClientDidChangeRange ==
    \E range \in Ranges, new_text \in NewTexts :
        LET d == DispatchDidChange(St, "/z.py", Some(MaxVersion),
                                   <<ContentChange(range, new_text)>>, now)
        IN  IF d.err THEN Terminate
            ELSE /\ \A u \in DOMAIN d.st.open_documents :
                       Len(d.st.open_documents[u].text) <= MaxTextBytes
                 /\ LoopStep(d.st)
                 /\ NoId
                 /\ UNCHANGED <<pending_initial_backend, inbox>>

ClientDidClose ==
    /\ \E uri \in Uris : LoopStep(HandleDidClose(St, uri, now))
    /\ NoId
    /\ UNCHANGED <<pending_initial_backend, inbox>>

ClientCancelRequest ==
    /\ \E id \in Seen : LoopStep(DispatchCancelRequest(St, id))
    /\ NoId
    /\ UNCHANGED <<pending_initial_backend, inbox>>

ClientRequest ==
    /\ FreshId
    /\ \E method \in Methods, uri \in Uris \cup {None},
          choice \in LruChoices(St), outcome \in Outcomes :
         LoopStep(DispatchClientRequest(St, next_client_id, method, uri, choice,
                                        outcome, now, warmup_timeout))
    /\ UNCHANGED <<pending_initial_backend, inbox>>

\* A generic request taken by the arm written out in LspProxy::run.
ClientRequestRun ==
    /\ FreshId
    /\ \E method \in Methods, uri \in Uris \cup {None},
          choice \in LruChoices(St), outcome \in Outcomes :
         LoopStep(RunClientRequest(St, next_client_id, method, uri, choice,
                                   outcome, now, warmup_timeout))
    /\ UNCHANGED <<pending_initial_backend, inbox>>

ClientNotification ==
    /\ LoopStep(DispatchClientNotification(St, "notification"))
    /\ NoId
    /\ UNCHANGED <<pending_initial_backend, inbox>>

\* backend_msg_rx.recv(): one message of the inbox is dispatched.
BackendRecv ==
    /\ inbox # <<>>
    /\ LoopStep(DispatchBackendMessage(St, Head(inbox)))
    /\ inbox' = Tail(inbox)
    /\ NoId
    /\ UNCHANGED pending_initial_backend

\* ttl_interval.tick(), enabled only when a TTL is configured.
TtlSweep ==
    /\ backend_ttl # 0
    /\ LoopStep(EvictExpiredBackends(St, backend_ttl, now))
    /\ NoId
    /\ UNCHANGED <<pending_initial_backend, inbox>>

WarmupExpire ==
    /\ \E i \in pool :
         /\ IsWarming(i)
         /\ now >= i.warmup_deadline
         /\ LoopStep(ExpireWarmup(St, i.venv_path))
    /\ NoId
    /\ UNCHANGED <<pending_initial_backend, inbox>>

(***************************************************************************)
(* The environment: time, and the child processes with their reader tasks. *)
(***************************************************************************)
LoopVars == <<pool, next_session, Config, pending_requests,
              pending_backend_requests, next_proxy_request_id, client_initialize,
              open_documents, pending_initial_backend, running, next_client_id,
              answered, created, emitted, venv_dirs>>

ProxyVars == <<LoopVars, ReaderVars>>

\* Time matters only relative to the instances of the pool; it runs up to
\* MaxTime and up to every warmup deadline that is still ahead.
Tick ==
    /\ running
    /\ pool # {}
    /\ \/ now < MaxTime
       \/ \E i \in pool : IsWarming(i) /\ now < i.warmup_deadline
    /\ now' = now + 1
    /\ UNCHANGED <<ProxyVars, inbox, procs>>

\* The venvs whose .venv directory comes and goes while the proxy runs.
VolatileVenvs == {FallbackVenv}

\* A .venv directory is created or deleted on disk.
FsChange ==
    /\ running
    /\ \E venv \in VolatileVenvs :
         venv_dirs' = IF venv \in venv_dirs THEN venv_dirs \ {venv}
                      ELSE venv_dirs \cup {venv}
    /\ UNCHANGED <<pool, next_session, Config, pending_requests,
                   pending_backend_requests, next_proxy_request_id,
                   client_initialize, open_documents, pending_initial_backend,
                   running, next_client_id, answered, created, emitted, now,
                   inbox, procs, ReaderVars>>

\* The reader task of session s enqueues one message.
Enqueue(s, kind, id) ==
    /\ Len(inbox) < MaxInbox
    /\ inbox' = Append(inbox, InboxMsg(procs[s].venv, s, kind, id))

BackendRespond ==
    /\ running
    /\ \E s \in DOMAIN procs :
         /\ procs[s].alive
         /\ \E r \in procs[s].written :
              /\ Enqueue(s, "response", r)
              /\ procs' = [procs EXCEPT ![s].written = @ \ {r}]
    /\ UNCHANGED <<ProxyVars, now>>

\* Requests the backends have sent so far, dispatched or still in the inbox.
BackendRequestsSoFar ==
    Len(emitted) + Cardinality({k \in 1..Len(inbox) : inbox[k].kind = "request"})

BackendRequest ==
    /\ running
    /\ BackendRequestsSoFar < MaxProxyIds
    /\ \E s \in DOMAIN procs, o \in BackendIds :
         /\ procs[s].alive
         /\ Enqueue(s, "request", o)
    /\ UNCHANGED <<ProxyVars, now, procs>>

BackendNotify ==
    /\ running
    /\ \E s \in DOMAIN procs :
         /\ procs[s].alive
         /\ Enqueue(s, "notification", 0)
    /\ UNCHANGED <<ProxyVars, now, procs>>

\* The child dies: the reader task enqueues the read error and stops.
BackendCrash ==
    /\ running
    /\ \E s \in DOMAIN procs :
         /\ procs[s].alive
         /\ Enqueue(s, "error", 0)
         /\ procs' = [procs EXCEPT ![s].alive = FALSE, ![s].written = {}]
    /\ UNCHANGED <<ProxyVars, now>>

\* A backend answers a client request it was never given.
BackendRogueResponse ==
    /\ running
    /\ \E s \in DOMAIN procs, r \in Seen :
         /\ procs[s].alive
         /\ r \notin procs[s].written
         /\ Enqueue(s, "response", r)
    /\ UNCHANGED <<ProxyVars, now, procs>>

(***************************************************************************)
(* spawn_reader_task step by step: the task reads one message from its     *)
(* backend, sends it to the channel, and stops after sending a read error. *)
(* The message carries in id its number in the order the backend emitted.  *)
(***************************************************************************)
\* The task goes on reading whatever it has sent.
StopsAfterNothing(held) == FALSE

\* The task stops after it has sent a read error.
StopsAfter(held) == held = "error"

\* reader.read_message() returns the next message of the backend.
ReaderRead ==
    /\ running
    /\ \E s \in DOMAIN procs :
         /\ procs[s].alive
         /\ readers[s].held = None /\ ~readers[s].stopped
         /\ readers[s].read < MaxEmit
         /\ readers' = [readers EXCEPT ![s].read = @ + 1,
                                       ![s].held = "notification"]
    /\ UNCHANGED <<LoopVars, now, inbox, procs, received, shutdown_tasks>>

\* reader.read_message() returns an error: the child has died, or dies now.
ReaderReadError ==
    /\ running
    /\ \E s \in DOMAIN procs :
         /\ readers[s].held = None /\ ~readers[s].stopped
         /\ readers[s].read < MaxEmit + 2
         /\ readers' = [readers EXCEPT ![s].read = @ + 1, ![s].held = "error"]
         /\ procs' = [procs EXCEPT ![s].alive = FALSE, ![s].written = {}]
    /\ UNCHANGED <<LoopVars, now, inbox, received, shutdown_tasks>>

\* tx.send(msg).await: waits while the channel is full.
ReaderSend ==
    /\ running
    /\ \E s \in DOMAIN procs :
         /\ readers[s].held # None
         /\ Len(inbox) < MaxChannel
         /\ inbox' = Append(inbox, InboxMsg(procs[s].venv, s, readers[s].held,
                                            readers[s].read))
         /\ readers' = [readers EXCEPT ![s].held = None,
                                       ![s].stopped = StopsAfter(readers[s].held)]
    /\ UNCHANGED <<LoopVars, now, procs, received, shutdown_tasks>>

\* backend_msg_rx.recv() and the dispatch of what it returned.
LoopRecv ==
    /\ running
    /\ inbox # <<>>
    /\ Commit(DispatchBackendMessage(St, Head(inbox)))
    /\ inbox' = Tail(inbox)
    /\ received' = Append(received, Head(inbox))
    /\ UNCHANGED <<Config, running, now, venv_dirs, next_client_id,
                   pending_initial_backend, readers, shutdown_tasks>>

(***************************************************************************)
(* backend.rs, shutdown_fire_and_forget: the spawned task of session s,    *)
(* step by step.  pc is the statement it stands before; child is the       *)
(* child process: "running", "exited" or "killed"; log is what the task    *)
(* has done.                                                               *)
(***************************************************************************)
\* A kill that leaves the child as it is.
KillNever(child) == child

\* child.kill().await: a running child is killed.
Kill(child) == IF child = "running" THEN "killed" ELSE child

TaskFrame == UNCHANGED <<LoopVars, now, inbox, procs, readers, received>>

\* shutdown_backend_instance spawns the task.
SpawnShutdown ==
    /\ \E s \in 1..MaxSession :
         /\ shutdown_tasks[s].pc = "none"
         /\ shutdown_tasks' = [shutdown_tasks EXCEPT ![s].pc = "send_shutdown"]
    /\ TaskFrame

\* The child exits, of its own accord or as it was asked to.
ChildExits ==
    /\ \E s \in 1..MaxSession :
         /\ shutdown_tasks[s].child = "running"
         /\ shutdown_tasks' = [shutdown_tasks EXCEPT ![s].child = "exited"]
    /\ TaskFrame

\* 1. the shutdown request; ok is whether the write succeeds, which it
\* cannot when the child is gone.
TaskSendShutdown ==
    /\ \E s \in 1..MaxSession, ok \in BOOLEAN :
         /\ shutdown_tasks[s].pc = "send_shutdown"
         /\ ok => shutdown_tasks[s].child = "running"
         /\ shutdown_tasks' =
              [shutdown_tasks EXCEPT ![s] =
                 IF ok
                 THEN [@ EXCEPT !.pc = "sleep", !.log = Append(@, "shutdown")]
                 ELSE [pc |-> "done", child |-> Kill(@.child),
                       log |-> @.log \o <<"shutdown_failed", "kill">>]]
    /\ TaskFrame

\* 2. sleep(100 ms).
TaskSleep ==
    /\ \E s \in 1..MaxSession :
         /\ shutdown_tasks[s].pc = "sleep"
         /\ shutdown_tasks' = [shutdown_tasks EXCEPT ![s].pc = "send_exit"]
    /\ TaskFrame

\* 3. the exit notification; a failed write is only logged.
TaskSendExit ==
    /\ \E s \in 1..MaxSession, ok \in BOOLEAN :
         /\ shutdown_tasks[s].pc = "send_exit"
         /\ ok => shutdown_tasks[s].child = "running"
         /\ shutdown_tasks' =
              [shutdown_tasks EXCEPT
                 ![s].pc = "wait",
                 ![s].log = Append(@, IF ok THEN "exit" ELSE "exit_failed")]
    /\ TaskFrame

\* 4. timeout(2 s, child.wait()): the child has exited, the wait fails, or
\* the two seconds pass with the child still running.
TaskWait ==
    /\ \E s \in 1..MaxSession, outcome \in {"exited", "wait_error", "timeout"} :
         /\ shutdown_tasks[s].pc = "wait"
         /\ outcome = "exited" => shutdown_tasks[s].child # "running"
         /\ outcome = "timeout" => shutdown_tasks[s].child = "running"
         /\ shutdown_tasks' =
              [shutdown_tasks EXCEPT ![s] =
                 IF outcome = "exited" THEN [@ EXCEPT !.pc = "done"]
                 ELSE [pc |-> "done", child |-> Kill(@.child),
                       log |-> Append(@.log, "kill")]]
    /\ TaskFrame

\* The steps of the spawned tasks, which the runtime keeps scheduling.
TaskRun == TaskSendShutdown \/ TaskSleep \/ TaskSendExit \/ TaskWait

(***************************************************************************)
(* The complete system, with backends that answer only what they were     *)
(* asked.                                                                  *)
(***************************************************************************)
Next ==
    \/ ClientInitialize
    \/ ClientInitialized
    \/ ClientShutdown
    \/ ClientExit
    \/ ClientResponse
    \/ ClientDidOpen
    \/ ClientDidChange
    \/ ClientDidClose
    \/ ClientCancelRequest
    \/ ClientRequest
    \/ ClientNotification
    \/ BackendRecv
    \/ TtlSweep
    \/ WarmupExpire
    \/ Tick
    \/ BackendRespond
    \/ BackendRequest
    \/ BackendNotify
    \/ BackendCrash

Spec == Init /\ [][Next]_vars

(***************************************************************************)
(* Restrictions of the complete system that are searched exhaustively.    *)
(* Each fixes a few configurations and leaves some of the peers'         *)
(* behaviours out; every behaviour of a restriction is one of Spec, but   *)
(* for SpecRogue, which adds the misbehaving backend.                      *)
(***************************************************************************)
ConfigOf == <<max_backends, backend_ttl, warmup_timeout, pending_initial_backend>>

\* Requests and their fate: routing, warmup, cancellation, crash, eviction,
\* TTL sweep, shutdown and exit.
LifecycleConfigs ==
    {<<1, MaxTtl, MaxWarmup, None>>,
     <<1, 0, MaxWarmup, FallbackVenv>>,
     <<MaxPool, MaxTtl, 0, FallbackVenv>>}

InitLifecycle == Init /\ ConfigOf \in LifecycleConfigs

NextLifecycle ==
    \/ ClientInitialize
    \/ ClientShutdown
    \/ ClientExit
    \/ ClientDidOpen
    \/ ClientCancelRequest
    \/ ClientRequest
    \/ BackendRecv
    \/ TtlSweep
    \/ WarmupExpire
    \/ Tick
    \/ BackendRespond
    \/ BackendCrash

SpecLifecycle == InitLifecycle /\ [][NextLifecycle]_vars

\* Two backends, one of which answers ids it was never given.
RogueConfigs == {<<MaxPool, 0, 0, FallbackVenv>>}

InitRogue == Init /\ ConfigOf \in RogueConfigs

NextRogue ==
    \/ ClientInitialize
    \/ ClientDidOpen
    \/ ClientRequest
    \/ BackendRecv
    \/ BackendRespond
    \/ BackendRogueResponse
    \/ BackendCrash

SpecRogue == InitRogue /\ [][NextRogue]_vars

\* Eviction, by LRU and by the TTL sweep, with client requests and backend
\* requests pending, the pool full with one backend or with two.
EvictConfigs ==
    {<<1, 0, 0, None>>, <<1, MaxTtl, 0, None>>, <<MaxPool, 0, 0, None>>}

InitEvict == Init /\ ConfigOf \in EvictConfigs

NextEvict ==
    \/ ClientInitialize
    \/ ClientDidOpen
    \/ ClientRequest
    \/ BackendRecv
    \/ TtlSweep
    \/ Tick
    \/ BackendRequest

SpecEvict == InitEvict /\ [][NextEvict]_vars

\* Backends created by didOpen, with every course of the handshake.
HandshakeConfigs == {<<1, 0, 0, None>>, <<MaxPool, 0, 0, None>>}

InitHandshake == Init /\ ConfigOf \in HandshakeConfigs

NextHandshake ==
    \/ ClientInitialize
    \/ ClientDidOpenReads
    \/ ClientRequest
    \/ BackendRecv
    \/ BackendCrash

SpecHandshake == InitHandshake /\ [][NextHandshake]_vars

\* Backend-originated requests and the client's answers, across a crash or
\* a shutdown of the origin and its re-creation.
BidirConfigs == {<<1, 0, 0, FallbackVenv>>, <<MaxPool, 0, 0, FallbackVenv>>}

InitBidir == Init /\ ConfigOf \in BidirConfigs

NextBidir ==
    \/ ClientInitialize
    \/ ClientShutdown
    \/ ClientDidOpen
    \/ ClientResponse
    \/ BackendRecv
    \/ BackendRequest
    \/ BackendCrash

SpecBidir == InitBidir /\ [][NextBidir]_vars

\* The event loop as LspProxy::run of proxy/mod.rs has it, with its own
\* request arm, two backends and no warmup.
NextRunLoop ==
    \/ ClientInitialize
    \/ ClientDidOpen
    \/ ClientRequestRun
    \/ BackendRecv
    \/ BackendRespond
    \/ BackendCrash

SpecRunLoop == InitRogue /\ [][NextRunLoop]_vars

\* Documents: opened, edited and closed while venvs appear and disappear on
\* disk and backends are created, evicted and created again.
InitDocs == Init /\ ConfigOf = <<1, 0, 0, None>>

NextDocs ==
    \/ ClientInitialize
    \/ ClientDidOpen
    \/ ClientDidChange
    \/ ClientRequest
    \/ FsChange

SpecDocs == InitDocs /\ [][NextDocs]_vars

\* The text of one document under incremental changes.
NextText ==
    \/ ClientDidOpenText
    \/ ClientDidChangeRange

SpecText == InitDocs /\ [][NextText]_vars

\* Warmup: requests queued and written while a backend warms up, their
\* cancellation, the drain at the deadline, crashes and evictions meanwhile.
WarmupConfigs ==
    {<<1, 0, MaxWarmup, None>>, <<1, 0, 0, None>>,
     <<MaxPool, 0, MaxWarmup, FallbackVenv>>}

InitWarmup == Init /\ ConfigOf \in WarmupConfigs

NextWarmup ==
    \/ ClientInitialize
    \/ ClientDidOpen
    \/ ClientCancelRequest
    \/ ClientRequest
    \/ BackendRecv
    \/ WarmupExpire
    \/ Tick
    \/ BackendCrash

SpecWarmup == InitWarmup /\ [][NextWarmup]_vars

\* Warmup under a fair event loop: time passes while a deadline is ahead,
\* and the timer arm of the select loop is taken once a deadline has
\* elapsed (tokio's select polls every ready arm).
WarmupLiveConfigs == {<<1, 0, MaxWarmup, None>>, <<1, 0, 0, None>>}

InitWarmupLive == Init /\ ConfigOf \in WarmupLiveConfigs

SpecWarmupLive ==
    InitWarmupLive /\ [][NextWarmup]_vars /\ WF_vars(Tick) /\ WF_vars(WarmupExpire)

\* The reader tasks of two backends and the event loop, interleaved.
NextReaders ==
    \/ ClientInitialize
    \/ ClientDidOpen
    \/ ReaderRead
    \/ ReaderReadError
    \/ ReaderSend
    \/ LoopRecv

SpecReaders == InitRogue /\ [][NextReaders]_vars

\* The client's initialized notification and the backends in the pool when
\* it arrives.
InitializedConfigs == {<<1, 0, 0, FallbackVenv>>, <<MaxPool, 0, 0, None>>}

InitInitialized == Init /\ ConfigOf \in InitializedConfigs

NextInitialized ==
    \/ ClientInitialize
    \/ ClientInitialized
    \/ ClientDidOpen
    \/ ClientRequest
    \/ BackendRecv
    \/ BackendRespond
    \/ BackendCrash

SpecInitialized == InitInitialized /\ [][NextInitialized]_vars

\* The shutdown tasks of two backends and their children.
InitShutdownTask == Init /\ ConfigOf = <<1, 0, 0, None>>

NextShutdownTask ==
    \/ SpawnShutdown
    \/ ChildExits
    \/ TaskSendShutdown
    \/ TaskSleep
    \/ TaskSendExit
    \/ TaskWait

SpecShutdownTask ==
    InitShutdownTask /\ [][NextShutdownTask]_vars /\ WF_vars(TaskRun)

(***************************************************************************)
(* Properties.                                                             *)
(***************************************************************************)
\* How often x occurs in seq.
Count(seq, x) == Cardinality({k \in 1..Len(seq) : seq[k] = x})

\* The instance of the pool with this venv and this session, if any.
Registered(p, venv, session) ==
    \E i \in p : i.venv_path = venv /\ i.session = session

\* The pending client requests bound to (venv, session).
BoundTo(pr, venv, session) ==
    {r \in DOMAIN pr : pr[r].venv_path = venv /\ pr[r].backend_session = session}

\* C1: while the proxy runs, every request the client has sent either is
\* still pending in the proxy or has received exactly one response: the
\* backend's response, a cancelled-response or an internal error.  A request
\* that is neither pending nor answered has been dropped silently.
C1_NoRequestSilentlyDropped ==
    running =>
        \A r \in Seen :
            \/ answered[r] = <<>> /\ r \in DOMAIN pending_requests
            \/ /\ Len(answered[r]) = 1
               /\ \/ answered[r][1].type = "response"
                  \/ answered[r][1] = CancelledResponse(r)
                  \/ answered[r][1] = ErrorResponse(r)

\* C2: the pool never holds more backends than the configured maximum, and
\* a step that inserts an instance for a new venv into a full pool removes
\* exactly one instance, one that lru_venv may return, and nothing else.
C2_PoolWithinMaximum ==
    /\ [](Cardinality(pool) <= max_backends)
    /\ [][\A i \in pool' :
            (~Contains(pool, i.venv_path) /\ Cardinality(pool) >= max_backends)
            => \E j \in pool :
                  /\ j.venv_path \in LruVenv(pool, pending_requests)
                  /\ pool' = (pool \ {j}) \cup {i}]_vars

\* A backend was inserted into a pool that was full with another venv.
C2_EvictedBeforeInsert ==
    /\ max_backends = 1
    /\ Len(created) = 2
    /\ created[1].venv # created[2].venv
    /\ BackendsKeys(pool) = {created[2].venv}
    /\ now = 0

\* C3: the pool holds at most one instance per venv, and the sessions of the
\* instances ever inserted are strictly increasing in order of creation, all
\* drawn from the counter (so distinct, whatever ids failed creations took).
C3_OneInstancePerVenvIncreasingSessions ==
    /\ \A i, j \in pool : i.venv_path = j.venv_path => i = j
    /\ \A k \in 1..Len(created) :
          /\ created[k].session >= 1
          /\ created[k].session <= next_session
          /\ \A l \in 1..(k - 1) : created[l].session < created[k].session

\* Two successive instances of one venv, the second in the pool.
C3_SecondInstanceOfVenv ==
    /\ Len(created) = 2
    /\ created[1].venv = created[2].venv
    /\ Registered(pool, created[2].venv, created[2].session)

\* C4: every id the proxy allocates for a backend-originated request is
\* negative and less than every id it allocated before, so the pending
\* backend->client entries never share a client-facing id.
C4_ProxyIdsNegativeDecreasing ==
    \A k \in 1..Len(emitted) :
        /\ emitted[k] < 0
        /\ \A l \in 1..(k - 1) : emitted[k] < emitted[l]
        /\ emitted[k] >= next_proxy_request_id + 1

\* Two backends used the same original id; both requests are pending.
C4_SameOriginalIdTwoBackends ==
    /\ Len(emitted) = 2
    /\ DOMAIN pending_backend_requests = {emitted[1], emitted[2]}
    /\ pending_backend_requests[emitted[1]].original_id
         = pending_backend_requests[emitted[2]].original_id
    /\ pending_backend_requests[emitted[1]].venv_path
         # pending_backend_requests[emitted[2]].venv_path

\* C5: between two steps of the event loop, every entry of the pending
\* client->backend table names the current session of a backend in the
\* pool.
C5_PendingNamesCurrentSession ==
    \A r \in DOMAIN pending_requests :
        Registered(pool, pending_requests[r].venv_path,
                   pending_requests[r].backend_session)

\* C6: a message or read error at the head of the inbox whose (venv,
\* session) is not an instance of the pool is discarded: dispatching it
\* writes nothing to the client or to a backend and leaves the pool and both
\* pending tables as they are, and the step that takes it off the inbox
\* changes nothing else.
C6_StaleMessageDiscarded ==
    /\ [](\A m \in {inbox[k] : k \in 1..Len(inbox)} :
            ~Registered(pool, m.venv_path, m.session)
            => LET st == DispatchBackendMessage(St, m)
               IN  /\ st.out = <<>>
                   /\ st.sent = <<>>
                   /\ st.pool = pool
                   /\ st.pending_requests = pending_requests
                   /\ st.pending_backend_requests = pending_backend_requests)
    /\ [][(/\ running'
           /\ inbox # <<>>
           /\ inbox' = Tail(inbox)
           /\ ~Registered(pool, Head(inbox).venv_path, Head(inbox).session))
          => UNCHANGED <<pool, pending_requests, pending_backend_requests,
                         answered, emitted, procs, next_session>>]_vars

\* The read error of an old session is next in the inbox while a successor
\* of the same venv is registered, and dispatching it keeps the successor.
C6_LateErrorOfOldSession ==
    /\ inbox # <<>>
    /\ Head(inbox).kind = "error"
    /\ \E i \in pool :
          /\ i.venv_path = Head(inbox).venv_path
          /\ i.session > Head(inbox).session
    /\ DispatchBackendMessage(St, Head(inbox)).pool = pool

\* C7: dispatching a backend response of a registered session whose id has
\* a pending client->backend entry removes the entry; it forwards the
\* response to the client when the entry's (venv, session) is the
\* message's, and writes nothing when it is not.
C7_ResponseForwardedOnlyOnMatch ==
    \A m \in {inbox[k] : k \in 1..Len(inbox)} :
        (/\ m.kind = "response"
         /\ Registered(pool, m.venv_path, m.session)
         /\ m.id \in DOMAIN pending_requests)
        => LET st == DispatchBackendMessage(St, m)
               entry == pending_requests[m.id]
           IN  /\ m.id \notin DOMAIN st.pending_requests
               /\ IF entry.venv_path = m.venv_path /\ entry.backend_session = m.session
                  THEN st.out = <<Forwarded("response", m.id, m.venv_path, m.session)>>
                  ELSE st.out = <<>> /\ st.answered = answered

\* A request written to a live backend has lost its pending entry without
\* any response to the client: another backend answered its id.
C7_MismatchDiscarded ==
    \E r \in Seen, s \in DOMAIN procs :
        /\ r \in procs[s].written
        /\ r \notin DOMAIN pending_requests
        /\ answered[r] = <<>>

\* C8: (1) dispatching the read error of a registered session removes its
\* venv from the pool, removes every pending entry bound to it and answers
\* each with exactly one cancelled-response, and writes no shutdown to the
\* dead process; (2) a hover for a file of a venv that had an instance and
\* has none now, when the spawn succeeds, registers a new instance whose
\* session is greater than all earlier ones of the venv, binds the request to
\* it and writes it there; (3) a response of a registered session to a
\* request bound to it is forwarded.
C8_CrashCancelsAndRespawns ==
    /\ \A m \in {inbox[k] : k \in 1..Len(inbox)} :
          (m.kind = "error" /\ Registered(pool, m.venv_path, m.session))
          => LET st == DispatchBackendMessage(St, m)
             IN  /\ ~Contains(st.pool, m.venv_path)
                 /\ \A r \in BoundTo(pending_requests, m.venv_path, m.session) :
                       /\ r \notin DOMAIN st.pending_requests
                       /\ Count(st.out, CancelledResponse(r)) = 1
                 /\ \A k \in 1..Len(st.sent) : st.sent[k].method # "shutdown"
    /\ \A uri \in FileUris, id \in RequestIds \ Seen, choice \in LruChoices(St) :
          LET v == FindVenv(uri)
              st == DispatchClientRequest(St, id, "hover", uri, choice, "ok",
                                          now, warmup_timeout)
          IN  (/\ client_initialize
               /\ v # None
               /\ ~Contains(pool, v)
               /\ \E k \in 1..Len(created) : created[k].venv = v)
              => /\ Contains(st.pool, v)
                 /\ \A k \in 1..Len(created) :
                       created[k].venv = v
                       => created[k].session < Get(st.pool, v).session
                 /\ st.pending_requests[id]
                      = PendingRequest(v, Get(st.pool, v).session)
                 /\ \E k \in 1..Len(st.sent) :
                       st.sent[k] = BackendMsg(v, Get(st.pool, v).session,
                                               "hover", id, uri, TRUE)
    /\ \A m \in {inbox[k] : k \in 1..Len(inbox)} :
          (/\ m.kind = "response"
           /\ Registered(pool, m.venv_path, m.session)
           /\ m.id \in BoundTo(pending_requests, m.venv_path, m.session))
          => Forwarded("response", m.id, m.venv_path, m.session)
                \in {DispatchBackendMessage(St, m).out[k] :
                        k \in 1..Len(DispatchBackendMessage(St, m).out)}

\* Request 1 was cancelled when its backend crashed; request 2 was answered
\* by the next instance of the same venv.
C8_CancelledThenServedByRespawn ==
    /\ Len(created) = 2
    /\ created[1].venv = created[2].venv
    /\ answered[1] = <<CancelledResponse(1)>>
    /\ answered[2] = <<Forwarded("response", 2, created[2].venv, created[2].session)>>

\* The empty publishDiagnostics for uri.
EmptyDiagnostics(uri) == ClientMsg("publishDiagnostics", 0, 0, None, 0, uri)

\* C9: evicting from a full pool a backend (v, s) that lru_venv may return
\* removes that instance and no other; removes exactly the pending
\* client->backend entries bound to (v, s), each answered with one
\* cancelled-response, and no other entry; removes exactly the pending
\* backend->client entries of (v, s); publishes one empty diagnostics list
\* for each cached document whose venv is v and for no other, the document
\* cache staying as it is; and writes nothing else to the client.  With a
\* maximum of one backend and /a the only backend, opening a file of /b with
\* a successful spawn leaves /b the only backend.
C9_LruEvictionEffects ==
    /\ Cardinality(pool) >= max_backends
       => \A choice \in LruChoices(St) :
            LET inst == CHOOSE i \in pool : i.venv_path = choice
                st == EvictLruBackend(St, choice)
                bound == BoundTo(pending_requests, choice, inst.session)
                docs == {u \in DOMAIN open_documents : open_documents[u].venv = choice}
                kept == {q \in DOMAIN pending_backend_requests :
                            ~(/\ pending_backend_requests[q].venv_path = choice
                              /\ pending_backend_requests[q].session = inst.session)}
            IN  /\ st.pool = pool \ {inst}
                /\ st.pending_requests
                     = [r \in DOMAIN pending_requests \ bound |-> pending_requests[r]]
                /\ \A r \in RequestIds :
                      Count(st.out, CancelledResponse(r)) = IF r \in bound THEN 1 ELSE 0
                /\ st.pending_backend_requests
                     = [q \in kept |-> pending_backend_requests[q]]
                /\ \A u \in Uris :
                      Count(st.out, EmptyDiagnostics(u)) = IF u \in docs THEN 1 ELSE 0
                /\ Len(st.out) = Cardinality(bound) + Cardinality(docs)
                /\ st.open_documents = open_documents
    /\ (max_backends = 1 /\ client_initialize /\ BackendsKeys(pool) = {"/a"})
       => \A choice \in LruChoices(St) :
            BackendsKeys(
                HandleDidOpen(St, TextDocumentItem("/b/y.py", "python", Some(1),
                                                  Some(<<"a">>)),
                              choice, "ok", now, warmup_timeout).pool) = {"/b"}

\* With a maximum of one backend, /a was evicted for /b while a request and
\* a backend request were pending on it and its document was open.
C9_EvictedWithPending ==
    /\ max_backends = 1
    /\ Len(created) = 2
    /\ created[1].venv = "/a"
    /\ BackendsKeys(pool) = {"/b"}
    /\ "/a/x.py" \in DOMAIN open_documents
    /\ \E r \in Seen : answered[r] = <<CancelledResponse(r)>>
    /\ emitted # <<>>
    /\ pending_backend_requests = EmptyMap

\* C10: the TTL sweep removes a backend only if a TTL is configured, the
\* backend's last-used age has reached it, and no pending client->backend
\* or backend->client entry is bound to its (venv, session); it adds
\* nothing; with a TTL of 0 it leaves the pool as it is.
C10_TtlSweepSparesBusyAndFresh ==
    LET st == EvictExpiredBackends(St, backend_ttl, now)
    IN  /\ st.pool \subseteq pool
        /\ \A i \in pool \ st.pool :
              /\ backend_ttl # 0
              /\ now - i.last_used >= backend_ttl
              /\ BoundTo(pending_requests, i.venv_path, i.session) = {}
              /\ \A q \in DOMAIN pending_backend_requests :
                    ~(/\ pending_backend_requests[q].venv_path = i.venv_path
                      /\ pending_backend_requests[q].session = i.session)
        /\ backend_ttl = 0 => st.pool = pool

\* A backend whose age has reached the TTL holds a pending backend request
\* and no pending client request, and the sweep leaves it in the pool.
C10_ExpiredButBusySpared ==
    /\ backend_ttl # 0
    /\ \E i \in pool :
          /\ now - i.last_used >= backend_ttl
          /\ BoundTo(pending_requests, i.venv_path, i.session) = {}
          /\ \E q \in DOMAIN pending_backend_requests :
                /\ pending_backend_requests[q].venv_path = i.venv_path
                /\ pending_backend_requests[q].session = i.session
    /\ EvictExpiredBackends(St, backend_ttl, now).pool = pool

\* C11: (1) dispatching a request that a registered backend (v, s) sent with
\* id o writes the message to the client once, under a proxy id p that no
\* pending entry uses, and records p -> (o, v, s), leaving the other entries
\* as they are; (2) dispatching the client's answer to a pending proxy id p
\* removes the entry of p and no other, and writes the response, with id o,
\* once to (v, s) when (v, s) is an instance of the pool, and to no backend
\* when v is absent or its session differs.
C11_BackendRequestRoundTrip ==
    /\ \A m \in {inbox[k] : k \in 1..Len(inbox)} :
          (m.kind = "request" /\ Registered(pool, m.venv_path, m.session))
          => LET st == DispatchBackendMessage(St, m)
                 p == next_proxy_request_id
             IN  /\ p \notin DOMAIN pending_backend_requests
                 /\ st.out = <<ClientMsg("request", p, 0, m.venv_path, m.session, "")>>
                 /\ st.sent = <<>>
                 /\ DOMAIN st.pending_backend_requests
                      = DOMAIN pending_backend_requests \cup {p}
                 /\ st.pending_backend_requests[p]
                      = [original_id |-> m.id, venv_path |-> m.venv_path,
                         session |-> m.session]
                 /\ \A q \in DOMAIN pending_backend_requests :
                       st.pending_backend_requests[q] = pending_backend_requests[q]
    /\ \A p \in DOMAIN pending_backend_requests :
          LET e == pending_backend_requests[p]
              st == DispatchClientResponse(St, p)
          IN  /\ st.pending_backend_requests
                   = [q \in DOMAIN pending_backend_requests \ {p}
                        |-> pending_backend_requests[q]]
              /\ st.out = <<>>
              /\ IF Registered(pool, e.venv_path, e.session)
                 THEN /\ Len(st.sent) = 1
                      /\ st.sent[1].venv = e.venv_path
                      /\ st.sent[1].session = e.session
                      /\ st.sent[1].method = "response"
                      /\ st.sent[1].id = e.original_id
                 ELSE st.sent = <<>>

\* Two requests are pending at the client: one of the venv's instance in the
\* pool, one of an earlier session of the same venv.
C11_CurrentAndStaleEntry ==
    \E p, q \in DOMAIN pending_backend_requests :
        /\ pending_backend_requests[p].venv_path
             = pending_backend_requests[q].venv_path
        /\ Registered(pool, pending_backend_requests[p].venv_path,
                      pending_backend_requests[p].session)
        /\ Contains(pool, pending_backend_requests[q].venv_path)
        /\ ~Registered(pool, pending_backend_requests[q].venv_path,
                       pending_backend_requests[q].session)

\* The warmup queue of the instance (venv, session), empty if there is none.
QueueOf(p, venv, session) ==
    IF Registered(p, venv, session)
    THEN (CHOOSE i \in p : i.venv_path = venv /\ i.session = session).warmup_queue
    ELSE <<>>

\* The positions in sent of the backend writes of client request id.
WritesOf(sent, id) ==
    {k \in 1..Len(sent) : sent[k].id = id /\ sent[k].method \in Methods}

\* The ids held in the warmup queues of the pool.
QueuedIds(p) ==
    UNION {{i.warmup_queue[k].id : k \in 1..Len(i.warmup_queue)} : i \in p}

\* C12: dispatching a new request that carries a document URI either
\* routes it to a target venv - it is then pending on an instance of the
\* pool - or neither queues nor writes it.  A routed request whose target is
\* Warming and whose method is in the narrower index-dependent set is
\* appended to the target's warmup queue and written to no backend; every
\* other routed request (hover or another method during warmup, any method
\* on a Ready backend) is written once, to its target, and is in no queue.
C12_HeldBackIffWarmingAndIndexDependent ==
    \A method \in Methods, uri \in Uris,
       choice \in LruChoices(St), outcome \in Outcomes :
        next_client_id \in RequestIds =>
        LET id == next_client_id
            st == DispatchClientRequest(St, id, method, uri, choice, outcome,
                                        now, warmup_timeout)
        IN  IF id \notin DOMAIN st.pending_requests
            THEN WritesOf(st.sent, id) = {} /\ id \notin QueuedIds(st.pool)
            ELSE LET e == st.pending_requests[id]
                     inst == CHOOSE i \in st.pool : i.venv_path = e.venv_path
                 IN  /\ Registered(st.pool, e.venv_path, e.backend_session)
                     /\ IF inst.warmup_state = "Warming" /\ method = "definition"
                        THEN /\ inst.warmup_queue
                                 = Append(QueueOf(pool, e.venv_path, e.backend_session),
                                          [id |-> id, method |-> method, uri |-> uri])
                             /\ WritesOf(st.sent, id) = {}
                        ELSE /\ id \notin QueuedIds(st.pool)
                             /\ \E k \in 1..Len(st.sent) :
                                   /\ WritesOf(st.sent, id) = {k}
                                   /\ st.sent[k].venv = e.venv_path
                                   /\ st.sent[k].session = e.backend_session

\* While a backend warms up, one request is held in its queue and another
\* has been written to it.
C12_QueuedAndWrittenDuringWarmup ==
    \E i \in pool :
        /\ i.warmup_state = "Warming"
        /\ Len(i.warmup_queue) = 1
        /\ i.session \in DOMAIN procs
        /\ \E r \in procs[i.session].written :
              /\ r \in BoundTo(pending_requests, i.venv_path, i.session)
              /\ r \notin QueuedIds(pool)

(***************************************************************************)
(* The drain of the warmup queue.                                          *)
(***************************************************************************)
\* The write of queued request r to (venv, session).
IsWriteOf(m, r, venv, session) ==
    /\ m.id = r.id /\ m.method = r.method /\ m.uri = r.uri
    /\ m.venv = venv /\ m.session = session

\* C13: when a Warming backend becomes Ready, the writes to backends are
\* exactly its queued requests, in queue order, each to the venv and session
\* that queued it; and a drain on behalf of a (venv, session) that the pool
\* does not hold - the venv missing or under another session - writes
\* nothing to any backend.
C13_DrainIsFifoAndSessionBound ==
    /\ \A i \in pool :
          IsWarming(i) =>
            LET st == ExpireWarmup(St, i.venv_path)
            IN  /\ Len(st.sent) = Len(i.warmup_queue)
                /\ \A k \in 1..Len(st.sent) :
                      IsWriteOf(st.sent[k], i.warmup_queue[k], i.venv_path,
                                i.session)
    /\ \A i \in pool, venv \in Venvs, session \in 1..MaxSession :
          ~IsCurrent(pool, venv, session) =>
            DrainWarmupQueue(St, venv, session, i.warmup_queue).sent = <<>>

\* A Warming backend whose deadline has elapsed holds two queued requests,
\* and another session number is not the pool's session of its venv.
C13_TwoQueuedAtDeadline ==
    \E i \in pool :
        /\ IsWarming(i)
        /\ now >= i.warmup_deadline
        /\ Len(i.warmup_queue) = 2
        /\ i.warmup_queue[1].id < i.warmup_queue[2].id
        /\ WriteOk(St, i.session)
        /\ \E session \in 1..MaxSession : ~IsCurrent(pool, i.venv_path, session)

\* The responses written to the client for request id.
ResponsesFor(out, id) == {k \in 1..Len(out) : IsResponseMsg(out[k]) /\ out[k].id = id}

\* C14: when the drain of a Warming backend's queue cannot write to the
\* backend, every queued request loses its pending entry and gets exactly
\* one response, an error with code -32603; nothing else is written to the
\* client, the other pending entries stay, and the backend stays in the pool
\* under its session, Ready with an empty queue.  When the writes succeed no
\* response is written and the pending table is unchanged.
C14_DrainWriteFailure ==
    \A i \in pool :
        IsWarming(i) =>
          LET st == ExpireWarmup(St, i.venv_path)
              ids == {i.warmup_queue[k].id : k \in 1..Len(i.warmup_queue)}
          IN  IF WriteOk(St, i.session)
              THEN st.out = <<>> /\ st.pending_requests = pending_requests
              ELSE /\ Len(st.out) = Len(i.warmup_queue)
                   /\ \A id \in ids :
                         /\ id \notin DOMAIN st.pending_requests
                         /\ \E k \in 1..Len(st.out) :
                               /\ ResponsesFor(st.out, id) = {k}
                               /\ st.out[k].type = "error"
                               /\ st.out[k].code = -32603
                   /\ st.pending_requests = MapRemoveAll(pending_requests, ids)
                   /\ st.pool = (pool \ {i}) \cup
                         {[i EXCEPT !.warmup_state = "Ready",
                                    !.warmup_deadline = 0, !.warmup_queue = <<>>]}

\* The process of a Warming backend has died, unnoticed so far, with two
\* requests in its queue and the deadline elapsed.
C14_DeadProcessAtDrain ==
    \E i \in pool :
        /\ IsWarming(i)
        /\ now >= i.warmup_deadline
        /\ Len(i.warmup_queue) = 2
        /\ ~WriteOk(St, i.session)
        /\ \A k \in 1..2 : i.warmup_queue[k].id \in DOMAIN pending_requests

(***************************************************************************)
(* Cancellation during warmup.                                             *)
(***************************************************************************)
\* The ids written to a backend when the Warming instances of the pool are drained.
DrainedIds(st) ==
    UNION {{ExpireWarmup(st, i.venv_path).sent[k].id :
                k \in 1..Len(ExpireWarmup(st, i.venv_path).sent)} :
           i \in {j \in st.pool : IsWarming(j)}}

\* C15: a $/cancelRequest whose target id is held in a warmup queue removes
\* it from that queue and from the pending table, leaves everything else in
\* place, writes nothing to any backend or to the client, and the id is
\* written at no later drain.  A $/cancelRequest for any other id is
\* written once to every backend of the pool and leaves the pool, its
\* queues and the pending table unchanged.
C15_CancelOfQueuedRequest ==
    \A id \in RequestIds :
        LET st == DispatchCancelRequest(St, id)
        IN  IF id \in QueuedIds(pool)
            THEN /\ st.pool = {[i EXCEPT !.warmup_queue =
                                  SelectSeq(@, LAMBDA r : r.id # id)] : i \in pool}
                 /\ st.pending_requests = MapRemove(pending_requests, id)
                 /\ st.sent = <<>>
                 /\ st.out = <<>>
                 /\ id \notin DrainedIds(st)
                 /\ id \in DrainedIds(St)
            ELSE /\ st.pool = pool
                 /\ st.pending_requests = pending_requests
                 /\ Len(st.sent) = Cardinality(pool)
                 /\ \A i \in pool :
                       \E k \in 1..Len(st.sent) :
                           /\ st.sent[k].method = "$/cancelRequest"
                           /\ st.sent[k].venv = i.venv_path
                           /\ st.sent[k].session = i.session

\* Two backends, one of them Warming with a queued request, while another
\* request of the client is pending and in no queue.
C15_QueuedAndForwardedTargets ==
    /\ Cardinality(pool) = 2
    /\ \E id \in Seen : id \in QueuedIds(pool) /\ id \in DOMAIN pending_requests
    /\ \E id \in Seen : id \notin QueuedIds(pool) /\ id \in DOMAIN pending_requests

(***************************************************************************)
(* Warmup ends.                                                            *)
(***************************************************************************)
WarmingIn(venv, session) ==
    \E i \in pool : i.venv_path = venv /\ i.session = session /\ IsWarming(i)

NoTargetHandled(st, id) ==
    IF Cardinality(pool) = 1
    THEN /\ \E i \in pool :
              /\ id \in DOMAIN st.pending_requests
              /\ st.pending_requests[id] = PendingRequest(i.venv_path, i.session)
              /\ \E k \in 1..Len(st.sent) :
                    /\ WritesOf(st.sent, id) = {k}
                    /\ st.sent[k].venv = i.venv_path
                    /\ st.sent[k].session = i.session
         /\ st.out = <<>>
    ELSE /\ Len(st.out) = 1
         /\ st.out[1].type = "error" /\ st.out[1].id = id
         /\ st.out[1].code = -32603
         /\ st.sent = <<>>
         /\ st.pending_requests = pending_requests
         /\ st.pool = pool

\* C17: a request without a document URI is answered with one internal
\* error when the pool is empty; with exactly one backend it is written to
\* that backend and registered pending on it; with more than one backend it
\* is answered with one internal error, written to no backend and not
\* registered - in dispatch_client_request and in the request arm of
\* LspProxy::run alike.
C17_RequestWithoutTarget ==
    \A method \in Methods, choice \in LruChoices(St), outcome \in Outcomes :
        next_client_id \in RequestIds =>
          /\ NoTargetHandled(
                DispatchClientRequest(St, next_client_id, method, None, choice,
                                      outcome, now, warmup_timeout),
                next_client_id)
          /\ NoTargetHandled(
                RunClientRequest(St, next_client_id, method, None, choice,
                                 outcome, now, warmup_timeout),
                next_client_id)

(***************************************************************************)
(* Strict mode.                                                            *)
(***************************************************************************)
\* Neither the document cache nor the disk has a venv for the file.
Unresolvable(uri) ==
    /\ uri \in DOMAIN open_documents => open_documents[uri].venv = None
    /\ VenvAbove(uri) \notin venv_dirs

\* Request id is answered with one internal error and nothing else happens.
Rejected(st, id) ==
    /\ Len(st.out) = 1
    /\ st.out[1].type = "error" /\ st.out[1].id = id /\ st.out[1].code = -32603
    /\ st.sent = <<>>
    /\ st.pending_requests = pending_requests
    /\ st.pool = pool

StoredVenvChanged ==
    \E uri \in DOMAIN open_documents \cap DOMAIN open_documents' :
        open_documents'[uri].venv # open_documents[uri].venv

DidOpensOf(sent, uri) ==
    {k \in 1..Len(sent) : sent[k].method = "didOpen" /\ sent[k].uri = uri}

CachedTexts == {open_documents[u].text : u \in DOMAIN open_documents}

\* The number of newlines in the first offset bytes.
NewlinesBefore(text, offset) == Cardinality({j \in 1..offset : text[j] = "nl"})

\* The UTF-16 code units of the characters that start in [from, to).
Utf16Units(text, from, to) ==
    Cardinality({j \in (from + 1)..to : text[j] \notin {"e2", "s2", "s3", "s4"}})
        + Cardinality({j \in (from + 1)..to : text[j] = "s1"})

\* Where line starts: the offset after its line-th newline; {} if the text
\* has fewer newlines.
LineStartOf(text, line) ==
    {o \in 0..Len(text) :
        /\ NewlinesBefore(text, o) = line
        /\ o = 0 \/ text[o] = "nl"}

\* Where the line that starts at start ends: at its newline or at the end
\* of the text.
LineEndOf(text, start) ==
    CHOOSE e \in start..Len(text) :
        /\ e = Len(text) \/ text[e + 1] = "nl"
        /\ \A j \in (start + 1)..e : text[j] # "nl"

\* C22: position_to_offset returns, for a line the text has, the byte
\* offset of the first character boundary of the line that has at least
\* character UTF-16 code units of the line before it - a character outside
\* the Basic Multilingual Plane counting two - and the offset of the end of
\* the line (before its newline) when the line is shorter; a line index
\* beyond the last line is an error.  "hello\nworld\n": (1,0) -> 6,
\* (0,5) -> 5; a, a surrogate-pair character, b, newline: (0,3) -> 5,
\* (0,1) -> 1.
C22_PositionToOffset ==
    /\ \A text \in CachedTexts, line \in 0..(MaxLine + 2),
          character \in 0..(MaxTextBytes + 1) :
          LET offset == PositionToOffset(text, line, character)
          IN  IF LineStartOf(text, line) = {} THEN offset = -1
              ELSE LET start == CHOOSE o \in LineStartOf(text, line) : TRUE
                       end == LineEndOf(text, start)
                       reached == {o \in start..end :
                                     /\ IsCharBoundary(text, o)
                                     /\ Utf16Units(text, start, o) >= character}
                   IN  /\ offset \in start..end
                       /\ IF reached = {} THEN offset = end
                          ELSE offset \in reached
                               /\ \A o \in reached : offset <= o
    /\ LET hello == <<"a", "a", "a", "a", "a", "nl", "b", "b", "b", "b", "b", "nl">>
           wide == <<"a", "s1", "s2", "s3", "s4", "b", "nl">>
       IN  /\ PositionToOffset(hello, 1, 0) = 6
           /\ PositionToOffset(hello, 0, 5) = 5
           /\ PositionToOffset(wide, 0, 3) = 5
           /\ PositionToOffset(wide, 0, 1) = 1

\* An edited document holds a character outside the Basic Multilingual
\* Plane followed by another character on the same line, and a second line.
C22_WideCharacterAndTwoLines ==
    \E text \in CachedTexts :
        /\ Len(text) = 6
        /\ text[1] = "s1"
        /\ text[5] \in {"a", "b"}
        /\ text[6] = "nl"
        /\ open_documents["/z.py"].version = MaxVersion

(***************************************************************************)
(* The document cache under didOpen and didChange.                         *)
(***************************************************************************)
\* The byte offset of a position, from the lines and the UTF-16 units of
\* the text: -1 when the text has no such line.
OffsetAt(text, line, character) ==
    LET starts == LineStartOf(text, line)
    IN  IF starts = {} THEN -1
        ELSE LET start == CHOOSE o \in starts : TRUE
                 end == LineEndOf(text, start)
                 reached == {o \in start..end :
                               /\ IsCharBoundary(text, o)
                               /\ Utf16Units(text, start, o) >= character}
             IN  IF reached = {} THEN end
                 ELSE CHOOSE o \in reached : \A q \in reached : o <= q

\* start is not after end, and both are on lines of the text.
ProperRange(text, range) ==
    /\ \/ range[1] < range[3]
       \/ range[1] = range[3] /\ range[2] <= range[4]
    /\ LineStartOf(text, range[1]) # {}
    /\ LineStartOf(text, range[3]) # {}

\* The text with the bytes of the range replaced by new_text.
RangeReplaced(text, range, new_text) ==
    LET s == OffsetAt(text, range[1], range[2])
        e == OffsetAt(text, range[3], range[4])
    IN  [j \in 1..(s + Len(new_text) + Len(text) - e) |->
            IF j <= s THEN text[j]
            ELSE IF j <= s + Len(new_text) THEN new_text[j - s]
            ELSE text[j - s - Len(new_text) + e]]

RECURSIVE ChangesApplied(_, _)
\* The text after the content changes in order: proper is FALSE when one
\* of them has a range that is not proper for the text it meets.
ChangesApplied(text, changes) ==
    IF changes = <<>> THEN [proper |-> TRUE, text |-> text]
    ELSE LET change == Head(changes)
         IN  IF change.range = Absent
             THEN ChangesApplied(change.text, Tail(changes))
             ELSE IF ProperRange(text, change.range)
             THEN ChangesApplied(RangeReplaced(text, change.range, change.text),
                                 Tail(changes))
             ELSE [proper |-> FALSE, text |-> text]

\* The content changes the invariant applies: every single change, and
\* pairs of a first change that moves the offsets with a second one.
SingleChanges ==
    {ContentChange(range, new_text) : range \in Ranges, new_text \in NewTexts}
        \cup {ContentChange(Absent, new_text) : new_text \in NewTexts}

FirstChanges ==
    {ContentChange(Absent, <<"a", "nl", "a">>),
     ContentChange(<<0, 0, 0, 0>>, <<"nl">>),
     ContentChange(<<0, 0, 0, 1>>, <<>>),
     ContentChange(<<0, 1, 1, 0>>, <<"b">>)}

SecondChanges ==
    {ContentChange(<<sl, sc, el, ec>>, new_text) :
        sl \in 0..1, sc \in 0..2, el \in 0..1, ec \in 0..2,
        new_text \in {<<>>, <<"b">>}}
        \cup {ContentChange(Absent, <<"b">>)}

ChangeLists ==
    {<<>>} \cup {<<c>> : c \in SingleChanges}
           \cup {<<c, d>> : c \in FirstChanges, d \in SecondChanges}

\* C21: didOpen caches the text it carries, and a didChange leaves in the
\* cache the text with its content changes applied in order - a change
\* with a range replaces the bytes of that range, a change without a range
\* the whole text - while every other document keeps its text; a didChange
\* with no content changes, or for a document that is not open, leaves
\* the cache as it is.
C21_CachedTextIsChangesApplied ==
    /\ \A text \in Texts, choice \in LruChoices(St), outcome \in Outcomes :
          LET opened == HandleDidOpen(St,
                          TextDocumentItem("/z.py", "python", Some(1), Some(text)),
                          choice, outcome, now, warmup_timeout)
          IN  /\ "/z.py" \in DOMAIN opened.open_documents
              /\ opened.open_documents["/z.py"].text = text
    /\ LET st == St IN \A changes \in ChangeLists :
          LET uri == "/z.py"
              h == HandleDidChange(st, uri, Some(MaxVersion), changes)
              after == h.st.open_documents
          IN  IF changes = <<>> \/ uri \notin DOMAIN open_documents
              THEN ~h.err /\ after = open_documents
              ELSE LET applied == ChangesApplied(open_documents[uri].text, changes)
                   IN  applied.proper =>
                         /\ ~h.err
                         /\ DOMAIN after = DOMAIN open_documents
                         /\ after[uri].text = applied.text
                         /\ \A u \in DOMAIN after \ {uri} :
                               after[u] = open_documents[u]

\* A document that was opened and then changed: it holds a "b", which
\* only a content change brings, after a two-byte character.
C21_DocumentEdited ==
    /\ "/z.py" \in DOMAIN open_documents
    /\ open_documents["/z.py"].version = MaxVersion
    /\ \E k \in 3..Len(open_documents["/z.py"].text) :
          /\ open_documents["/z.py"].text[k] = "b"
          /\ open_documents["/z.py"].text[k - 1] = "e2"

\* C23: for every text and every position on one of its lines - a
\* character between the two UTF-16 units of a surrogate pair included -
\* the byte offset of position_to_offset is a character boundary, and an
\* incremental change whose range starts and ends at the position gives
\* the old text with new_text inserted at that offset, every byte of the
\* old text kept, in order, around it.
C23_InsertAtCharBoundary ==
    \A text \in CachedTexts, line \in 0..MaxLine,
       character \in 0..(MaxTextBytes + 1) :
        LET offset == PositionToOffset(text, line, character)
        IN  LineStartOf(text, line) # {} =>
              /\ offset \in 0..Len(text)
              /\ IsCharBoundary(text, offset)
              /\ \A new_text \in NewTexts :
                    LET r == ApplyIncrementalChange(
                               text, <<line, character, line, character>>, new_text)
                    IN  /\ r.ok
                        /\ Len(r.text) = Len(text) + Len(new_text)
                        /\ \A j \in 1..offset : r.text[j] = text[j]
                        /\ \A j \in 1..Len(new_text) :
                              r.text[offset + j] = new_text[j]
                        /\ \A j \in (offset + 1)..Len(text) :
                              r.text[j + Len(new_text)] = text[j]

\* The cached text starts with a character outside the Basic Multilingual
\* Plane, so that character 1 of line 0 falls between its two UTF-16
\* units, and a change has inserted a "b" right after it.
C23_InsertedAfterSurrogatePair ==
    /\ "/z.py" \in DOMAIN open_documents
    /\ LET text == open_documents["/z.py"].text
       IN  /\ Len(text) >= 5
           /\ SubSeq(text, 1, 5) = <<"s1", "s2", "s3", "s4", "b">>
           /\ PositionToOffset(text, 0, 1) = 4

\* The start position of the range is after its end position.
StartAfterEnd(range) ==
    \/ range[1] > range[3]
    \/ range[1] = range[3] /\ range[2] > range[4]

\* C24: an incremental change whose range has its start position after
\* its end position is rejected with an error and leaves the text as it
\* was, for every such pair of positions, character values beyond the end
\* of the line included.
C24_ReversedRangeRejected ==
    \A text \in CachedTexts, range \in Ranges, new_text \in NewTexts :
        StartAfterEnd(range) =>
            LET r == ApplyIncrementalChange(text, range, new_text)
            IN  ~r.ok /\ r.text = text

(***************************************************************************)
(* The initialize request.                                                 *)
(***************************************************************************)
\* The ids a client gives its initialize request.
InitializeIds == {0, 1}

\* The messages of out that answer a request.
AnswersIn(out) ==
    {k \in 1..Len(out) :
        out[k].type \in {"error", "result", "response", "initializeResponse"}}

\* dispatch_initialize of the request with this id answers it once, with
\* its id, from the pre-spawned backend or with empty capabilities.
InitializeAnswered(id) ==
    \A outcome \in {"ok", "init_failed"} :
        LET pib == pending_initial_backend
            after == DispatchInitialize(St, id, pib, outcome, now, warmup_timeout)
            answers == AnswersIn(after.out)
        IN  /\ after.client_initialize
            /\ Cardinality(answers) = 1
            /\ \A k \in answers : after.out[k].id = id
            /\ IF pib # None /\ outcome = "ok"
               THEN /\ \A k \in answers :
                          /\ after.out[k].type = "initializeResponse"
                          /\ after.out[k].venv = pib
                    /\ Contains(after.pool, pib)
                    /\ Get(after.pool, pib).session > next_session
                    /\ \A i \in pool : i.session # Get(after.pool, pib).session
                    /\ \A i \in pool : i.venv_path # pib => i \in after.pool
               ELSE /\ \A k \in answers : after.out[k] = ProxyResult(id)
                    /\ after.pool = pool

\* C25: every initialize request of the client is answered with exactly
\* one response that carries its id - the initialize response of the
\* pre-spawned backend when there is one and its handshake succeeds, the
\* backend then being in the pool under a new session, and a result with
\* empty capabilities otherwise, the pool then being left as it was - and
\* the initialize message is cached in every case.
C25_InitializeAnsweredOnce ==
    \A id \in InitializeIds : InitializeAnswered(id)

(***************************************************************************)
(* Failures of one backend.                                                *)
(***************************************************************************)
\* out holds a window/showMessage of type 1 (error) that names the venv.
ErrorShownFor(out, venv) ==
    \E k \in 1..Len(out) :
        out[k].type = "showMessage" /\ out[k].code = 1 /\ out[k].venv = venv

\* Creating a backend for the venv of the file fails: the venv has no
\* backend in the pool, and the spawn or the handshake fails or no
\* initialize message is cached.
CreationFails(uri, outcome) ==
    /\ ToFilePathOk(uri)
    /\ FindVenv(uri) # None
    /\ ~Contains(pool, FindVenv(uri))
    /\ outcome # "ok" \/ ~client_initialize

\* C26: whenever creating a backend for a venv fails - the spawn, the
\* handshake, or no cached initialize - the client is sent a
\* window/showMessage of type 1 that names the venv, on the path of
\* textDocument/didOpen as on the path of ensure_backend_in_pool.
C26_CreationFailureShown ==
    \A outcome \in Outcomes, choice \in LruChoices(St) :
        /\ \A td \in OpenItems :
              CreationFails(td.uri, outcome) =>
                  ErrorShownFor(HandleDidOpen(St, td, choice, outcome, now,
                                              warmup_timeout).out,
                                FindVenv(td.uri))
        /\ \A uri \in Uris \ DOMAIN open_documents :
              CreationFails(uri, outcome) =>
                  ErrorShownFor(EnsureBackendInPool(St, uri, choice, outcome, now,
                                                    warmup_timeout).st.out,
                                FindVenv(uri))

\* The pool entries of the other venvs, the pending entries bound to
\* another (venv, session), and the documents of the other venvs.
PoolOutside(p, venv) == {i \in p : i.venv_path # venv}

PendingOutside(pr, venv, session) ==
    {<<id, pr[id]>> : id \in {x \in DOMAIN pr :
        pr[x].venv_path # venv \/ pr[x].backend_session # session}}

PendingBackendOutside(pbr, venv, session) ==
    {<<id, pbr[id]>> : id \in {x \in DOMAIN pbr :
        pbr[x].venv_path # venv \/ pbr[x].session # session}}

DocumentsOutside(docs, venv) ==
    {<<u, docs[u]>> : u \in {x \in DOMAIN docs : docs[x].venv # venv}}

\* What does not concern (venv, session) is the same in a and in b.
SameOutside(a, b, venv, session) ==
    /\ PoolOutside(a.pool, venv) = PoolOutside(b.pool, venv)
    /\ PendingOutside(a.pending_requests, venv, session)
         = PendingOutside(b.pending_requests, venv, session)
    /\ PendingBackendOutside(a.pending_backend_requests, venv, session)
         = PendingBackendOutside(b.pending_backend_requests, venv, session)
    /\ DocumentsOutside(a.open_documents, venv)
         = DocumentsOutside(b.open_documents, venv)

\* The venv ensure_backend_in_pool creates a backend for.
TargetOf(uri) ==
    IF uri \in DOMAIN open_documents THEN open_documents[uri].venv
    ELSE FindVenv(uri)

InboxLog(s) == SelectSeq(received \o inbox, LAMBDA m : m.session = s)

\* C28: for each (venv, session) the loop receives the messages of that
\* backend in the order the backend emitted them - the k-th item received
\* is the k-th emitted - however the reader tasks of different backends
\* interleave; a read error is the last item of its session, and the task
\* that enqueued it has stopped and holds nothing more to enqueue.
C28_InboxOrderPerSession ==
    \A s \in 1..MaxSession :
        LET log == InboxLog(s)
        IN  \A k \in 1..Len(log) :
                /\ log[k].id = k
                /\ log[k].venv_path = log[1].venv_path
                /\ log[k].kind = "error" =>
                      /\ k = Len(log)
                      /\ readers[s].stopped
                      /\ readers[s].held = None

\* The loop has received a message of one session between two messages
\* of the other, and the read error of a session after its messages.
C28_InterleavedAndFailed ==
    /\ \E i, j, k \in 1..Len(received) :
          /\ i < j /\ j < k
          /\ received[i].session = received[k].session
          /\ received[j].session # received[i].session
    /\ \E k \in 2..Len(received) :
          /\ received[k].kind = "error"
          /\ received[k].id = MaxEmit + 1

(***************************************************************************)
(* The choice of the backend to evict.                                     *)
(***************************************************************************)
\* The instances of the pool no pending request is bound to.
ZeroPending == {i \in pool : CountPending(pending_requests, i.venv_path, i.session) = 0}

\* C29: lru_venv returns none exactly when the pool is empty; when some
\* backend has no pending request it returns such a backend, none of them
\* used less recently; otherwise a backend none of the pool was used less
\* recently than.  Hence the LRU eviction removes a backend with pending
\* requests only when every backend of the pool has pending requests.
C29_LruPrefersIdle ==
    LET lru == LruVenv(pool, pending_requests)
    IN  /\ lru = {} <=> pool = {}
        /\ \A venv \in lru :
              /\ Contains(pool, venv)
              /\ IF ZeroPending # {}
                 THEN /\ Get(pool, venv) \in ZeroPending
                      /\ \A i \in ZeroPending :
                            Get(pool, venv).last_used <= i.last_used
                 ELSE \A i \in pool : Get(pool, venv).last_used <= i.last_used
        /\ \A choice \in LruChoices(St) :
              LET after == EvictLruBackend(St, choice)
              IN  \A i \in pool \ after.pool :
                      /\ i.venv_path = choice
                      /\ i \notin ZeroPending => ZeroPending = {}

\* The backend used least recently has a request pending and the other
\* one has none: the idle one is the choice.
C29_BusyOlderThanIdle ==
    \E i \in pool, j \in pool :
        /\ i.last_used < j.last_used
        /\ i \notin ZeroPending
        /\ j \in ZeroPending
        /\ LruVenv(pool, pending_requests) = {j.venv_path}

(***************************************************************************)
(* A request written to a backend whose process is gone.                   *)
(***************************************************************************)
\* C30: when the write of a routed client request to its target backend
\* fails, the backend stays in the pool under its session, the request is
\* registered as pending for that (venv, session), every other pending
\* entry stays, and nothing is written to the client in that step.
C30_WriteFailureOnlyLogged ==
    LET st == St
    IN  \A uri \in FileUris, id \in RequestIds \ DOMAIN pending_requests,
           method \in Methods :
            LET venv == TargetOf(uri)
                after == DispatchClientRequest(st, id, method, uri, None, "ok",
                                               now, warmup_timeout)
            IN  /\ venv # None
                /\ Contains(pool, venv)
                /\ ~WriteOk(st, Get(pool, venv).session)
                /\ ~(IsWarming(Get(pool, venv)) /\ method \in INDEX_DEPENDENT_METHODS)
                => /\ \E k \in 1..Len(after.sent) :
                         /\ after.sent[k].id = id
                         /\ after.sent[k].method = method
                         /\ after.sent[k].venv = venv
                         /\ after.sent[k].session = Get(pool, venv).session
                         /\ ~after.sent[k].ok
                   /\ after.pool = Touch(st, venv, now).pool
                   /\ Get(after.pool, venv).session = Get(pool, venv).session
                   /\ after.pending_requests =
                         MapInsert(pending_requests, id,
                                   PendingRequest(venv, Get(pool, venv).session))
                   /\ after.out = <<>>
                   /\ after.answered = answered

\* Two requests are pending, unanswered, on a backend that is in the pool
\* although its process is gone; its read error waits in the inbox.
C30_PendingOnDeadBackend ==
    \E i \in pool :
        /\ i.session \in DOMAIN procs
        /\ ~procs[i.session].alive
        /\ CountPending(pending_requests, i.venv_path, i.session) = MaxRequests
        /\ \A id \in DOMAIN pending_requests : answered[id] = <<>>
        /\ \E k \in 1..Len(inbox) :
              inbox[k].kind = "error" /\ inbox[k].session = i.session

(***************************************************************************)
(* textDocument/didOpen.                                                   *)
(***************************************************************************)
\* The instance a creation for venv inserts in this state.
CreatedNow(venv) ==
    NewInstance(venv, NextSessionId(next_session), now, warmup_timeout)

\* C31: didOpen of a file whose venv V resolves: with V absent from the
\* pool the LRU backend is evicted first when the pool is at capacity,
\* then a backend for V is created and inserted; with V present the
\* notification is forwarded to V's backend and to no other.  When no
\* venv resolves the document is cached with venv none and nothing is
\* written to a backend.  When the open carries its text, V's backend is
\* written the open of this document exactly once, by the replay at
\* creation or by forwarding.
C31_DidOpenReachesBackendOnce ==
    LET st == St
    IN  \A td \in OpenItems, choice \in LruChoices(st) :
            LET uri == td.uri
                V == FindVenv(uri)
                after == HandleDidOpen(st, td, choice, "ok", now, warmup_timeout)
                opens == DidOpensOf(after.sent, uri)
            IN  ToFilePathOk(uri) =>
                  /\ td.text # Absent =>
                        /\ uri \in DOMAIN after.open_documents
                        /\ after.open_documents[uri].venv = V
                  /\ V = None => after.sent = <<>> /\ after.pool = pool
                  /\ V # None /\ Contains(pool, V) =>
                        /\ after.pool = Touch(st, V, now).pool
                        /\ Len(after.sent) = 1
                        /\ opens = {1}
                        /\ after.sent[1].venv = V
                        /\ after.sent[1].session = Get(pool, V).session
                  /\ V # None /\ ~Contains(pool, V) /\ client_initialize =>
                        /\ after.pool =
                              (IF IsFull(pool, max_backends)
                               THEN Remove(pool, choice) ELSE pool)
                                 \cup {CreatedNow(V)}
                        /\ IsFull(pool, max_backends) =>
                              \E i, j \in 1..Len(after.sent) :
                                  /\ i < j
                                  /\ after.sent[i].method = "shutdown"
                                  /\ after.sent[i].venv = choice
                                  /\ after.sent[j].method = "initialize"
                                  /\ after.sent[j].venv = V
                        /\ \A k \in opens :
                              /\ after.sent[k].venv = V
                              /\ after.sent[k].session = CreatedNow(V).session
                        /\ td.text # Absent => Cardinality(opens) = 1

\* The pool holds one backend at most; a didOpen has evicted the backend
\* of /a to create the one of /b, whose document is cached.
C31_EvictedThenCreated ==
    /\ max_backends = 1
    /\ Len(created) = MaxSession
    /\ created[1].venv = "/a"
    /\ "/b/y.py" \in DOMAIN open_documents
    /\ \E i \in pool : i.venv_path = "/b" /\ i.session = MaxSession

(***************************************************************************)
(* shutdown and exit.                                                      *)
(***************************************************************************)
\* The shutdown requests written to the backend process of instance i.
ShutdownsTo(sent, i) ==
    {k \in 1..Len(sent) : /\ sent[k].method = "shutdown"
                          /\ sent[k].venv = i.venv_path
                          /\ sent[k].session = i.session}

\* C32: after the client's shutdown request is processed the pool is
\* empty, every backend that was in the pool has lost its reader task and
\* child to one fire-and-forget shutdown, and the client has been written
\* exactly one message, the null result with the request's id; the exit
\* notification then ends the event loop.
C32_ShutdownEmptiesPoolExitEnds ==
    [][/\ \A id \in LifecycleIds :
            LET after == DispatchShutdown(St, id)
            IN  /\ after.pool = {}
                /\ \A i \in pool :
                      /\ i.session \notin DOMAIN after.procs
                      /\ Cardinality(ShutdownsTo(after.sent, i)) = 1
                /\ Len(after.sent) = Cardinality(pool)
                /\ after.out = <<ProxyResult(id)>>
       /\ (pool = {} /\ ClientExit) => (~running' /\ pool' = {})]_vars

\* Two backends are in the pool, one of them with a request in flight,
\* when the shutdown request can arrive.
C32_TwoBackendsBeforeShutdown ==
    /\ running
    /\ Cardinality(pool) = MaxPool
    /\ pending_requests # EmptyMap
    /\ \A i \in pool : i.session \in DOMAIN procs

(***************************************************************************)
(* The initialize handshake with a backend.                                *)
(***************************************************************************)
\* The position of the first read that is neither a notification nor a
\* response with another id; 0 when there is none.
FirstDecisive(reads) ==
    LET d == {k \in 1..Len(reads) :
                reads[k] \notin {"notification", "response_other"}}
    IN  IF d = {} THEN 0 ELSE CHOOSE k \in d : \A j \in d : k <= j

MethodWrites(sent, method) == {k \in 1..Len(sent) : sent[k].method = method}

\* C33: without a cached client initialize the handshake fails with
\* nothing sent.  Otherwise initialize with id 1 is sent first;
\* notifications and responses with other ids are skipped; the handshake
\* succeeds exactly when the first other thing read is the response with
\* id 1 and no error; initialized is written exactly then, right after
\* initialize; on an error response, a read failure or the timeout no
\* initialized is written and no instance for the venv enters the pool.
C33_HandshakeOnlyOnResponseOne ==
    LET st == St
    IN  \A reads \in ReadSeqs, uri \in {"/a/x.py", "/b/y.py"},
           choice \in LruChoices(st) :
          LET venv == FindVenv(uri)
              session == NextSessionId(next_session)
              k == FirstDecisive(reads)
              c == CreateBackendInstance(st, venv, ReadInitializeResponse(reads),
                                         now, warmup_timeout)
              after == HandleDidOpen(st, TextDocumentItem(uri, "python", Some(1),
                                                          Some(<<"a">>)),
                                     choice, ReadInitializeResponse(reads),
                                     now, warmup_timeout)
          IN  venv # None /\ ~Contains(pool, venv) =>
                /\ ~client_initialize => ~c.ok /\ c.st.sent = <<>>
                /\ client_initialize =>
                      /\ c.st.sent[1].method = "initialize"
                      /\ c.st.sent[1].id = 1
                      /\ c.st.sent[1].venv = venv
                      /\ c.st.sent[1].session = session
                      /\ c.ok <=> (k # 0 /\ reads[k] = "response_ok")
                      /\ MethodWrites(c.st.sent, "initialized") =
                            (IF c.ok THEN {2} ELSE {})
                /\ ~c.ok =>
                      /\ MethodWrites(after.sent, "initialized") = {}
                      /\ ~Contains(after.pool, venv)
                      /\ after.created = created
                /\ c.ok =>
                      /\ Contains(after.pool, venv)
                      /\ Get(after.pool, venv).session = session

\* One handshake has failed and a later one has succeeded.
C33_FailedThenSucceeded ==
    /\ client_initialize
    /\ next_session = MaxSession
    /\ Len(created) = 1
    /\ created[1].session = MaxSession
    /\ \E i \in pool : i.session = MaxSession

(***************************************************************************)
(* The fire-and-forget shutdown task.                                      *)
(***************************************************************************)
\* What holds of a task at every moment.
TaskOrderly(t) ==
    /\ t.pc = "done" => t.child \in {"exited", "killed"}
    /\ t.child = "killed" => t.log[Len(t.log)] = "kill"
    /\ t.log # <<>> => t.log[1] \in {"shutdown", "shutdown_failed"}
    /\ t.log # <<>> /\ t.log[1] = "shutdown_failed" =>
          t.log = <<"shutdown_failed", "kill">> /\ t.pc = "done"
    /\ \A k \in 1..Len(t.log) :
          /\ t.log[k] \in {"exit", "exit_failed"} =>
                k = 2 /\ t.log[1] = "shutdown"
          /\ t.log[k] = "kill" => k = Len(t.log) /\ t.pc = "done"
    /\ t.pc = "done" /\ t.log[1] = "shutdown" => Len(t.log) >= 2

\* C34: every execution of the shutdown task ends, with the child exited
\* or killed.  The shutdown request is written first; when that write
\* fails the child is killed at once and no exit notification is written;
\* otherwise the exit notification follows the shutdown request, and the
\* child is killed when the wait fails or ends with the child running.
C34_ShutdownTaskEnds ==
    /\ [](\A s \in 1..MaxSession : TaskOrderly(shutdown_tasks[s]))
    /\ \A s \in 1..MaxSession :
          (shutdown_tasks[s].pc # "none") ~> (shutdown_tasks[s].pc = "done")

\* One task has killed its child after the wait, the other after the
\* failed write of the shutdown request.
C34_KilledBothWays ==
    /\ shutdown_tasks[1].log = <<"shutdown", "exit", "kill">>
    /\ shutdown_tasks[1].child = "killed"
    /\ shutdown_tasks[2].log = <<"shutdown_failed", "kill">>

(***************************************************************************)
(* The pending backend->client table.                                      *)
(***************************************************************************)
\* C35: between two steps of the event loop, every entry of the pending
\* backend->client table names the current session of a backend in the
\* pool: an entry goes when the client answers its proxy id and when its
\* origin backend leaves the pool by crash, LRU eviction, TTL eviction or
\* the client's shutdown.
C35_PendingBackendNamesCurrentSession ==
    \A p \in DOMAIN pending_backend_requests :
        Registered(pool, pending_backend_requests[p].venv_path,
                   pending_backend_requests[p].session)

(***************************************************************************)
(* Responses to the client's requests.                                     *)
(***************************************************************************)
\* C36: the client is never sent two responses for one of its requests:
\* after a real response, a cancelled-response or an internal-error
\* response with id r, neither a late response of an old session nor a
\* crash, an eviction, a TTL sweep or a warmup drain produces another.
C36_AtMostOneResponse ==
    \A r \in RequestIds : Len(answered[r]) <= 1

\* Request 1 got its cancelled-response when its backend left the pool,
\* and the response of that backend's session is still in the channel.
C36_CancelledAndLateMessage ==
    /\ answered[1] = <<CancelledResponse(1)>>
    /\ inbox # <<>>
    /\ Head(inbox).kind = "response"
    /\ Head(inbox).id = 1
    /\ ~Registered(pool, Head(inbox).venv_path, Head(inbox).session)

(***************************************************************************)
(* The warmup queue.                                                       *)
(***************************************************************************)
\* C37: every request held in a backend's warmup queue has an entry in the
\* pending client->backend table, with that backend's venv and session,
\* whatever requests, cancellations, drains, evictions and crashes came
\* before.
C37_QueuedIsPending ==
    \A i \in pool :
        \A k \in 1..Len(i.warmup_queue) :
            /\ i.warmup_queue[k].id \in DOMAIN pending_requests
            /\ pending_requests[i.warmup_queue[k].id].venv_path = i.venv_path
            /\ pending_requests[i.warmup_queue[k].id].backend_session = i.session

\* A request is queued on the second backend of a venv, after a request
\* queued on the first was cancelled or lost its backend.
C37_QueuedOnSuccessor ==
    \E i \in pool :
        /\ i.session = MaxSession
        /\ Len(i.warmup_queue) = 1
        /\ i.warmup_queue[1].id = MaxRequests
        /\ created[1].venv = i.venv_path
        /\ 1 \notin DOMAIN pending_requests

\* The instances of the pool that hold queued requests.
Queueing == {i \in pool : i.warmup_queue # <<>>}

C39_InitializedAtMostOnce ==
    \A s \in DOMAIN procs : procs[s].initialized <= 1

(***************************************************************************)
(* What ends the event loop.                                               *)
(***************************************************************************)
\* C40: with a client that sends no exit and a transport that does not
\* fail, the event loop keeps running: a didChange whose range is invalid
\* (start after end, or a line beyond the document) does not end it, and
\* the client's next messages are processed.
C40_InvalidRangeKeepsLoop == running

====
